---- MODULE Spec2Model ----
(***************************************************************************)
(* A model of Varsha-AI.  The document-text-extraction module              *)
(* (src/document_processor.py): the Text Cleaner, the four format          *)
(* extractors, the dispatcher process_file and extract_metadata.  The      *)
(* conversation engine (src/gemini_integration.py): the operations of      *)
(* GeminiChat and the prompts they send to the generation endpoint.  The   *)
(* session of the Streamlit application (src/streamlit_app.py): the        *)
(* document registry, the processed content and the conversation history.  *)
(*                                                                         *)
(* Text is a sequence of Unicode code points (Python str), bytes are a     *)
(* sequence of numbers 0..255 (Python bytes).  Every component has its own *)
(* specification (SpecClean, SpecPdf, ...) over its own variables; the     *)
(* variables of the other components stay as Init left them.               *)
(***************************************************************************)
EXTENDS Integers, Sequences, FiniteSets, TLC

VARIABLES
    cleanIn,      \* the text given to the cleaner
    cleanOut,     \* _clean_text(cleanIn)
    cleanTwice,   \* _clean_text(cleanOut)
    cleanPc,      \* "input", "cleaned", "recleaned"
    pdfDoc,       \* what fitz makes of the bytes: whether it opens, its pages, its metadata
    pdfPc,        \* "input", "done": _process_pdf
    pdfResult,    \* what _process_pdf returned or raised
    pdfHandle,    \* the fitz document of _process_pdf: "none", "open", "closed"
    metaFile,     \* the uploaded file given to extract_metadata
    metaPc,       \* "input", "done": extract_metadata
    metaResult,   \* what extract_metadata returned or raised
    metaHandle,   \* the fitz document of extract_metadata: "none", "open", "closed"
    docxDoc,      \* what python-docx makes of the bytes: whether it opens, its body
    docxPc,       \* "input", "done": _process_docx
    docxResult,   \* what _process_docx returned or raised
    pptxDoc,      \* what python-pptx makes of the bytes: whether it opens, its slides
    pptxPc,       \* "input", "done": _process_pptx
    pptxResult,   \* what _process_pptx returned or raised
    txtBytes,     \* the bytes given to _process_txt
    txtPc,        \* "input", "done": _process_txt
    txtResult,    \* what _process_txt returned or raised
    upFile,       \* the uploaded file: declared type, bytes, read position
    dispPc,       \* "uploaded", "processed" (process_file ended), "reread"
    dispResult,   \* what the last process_file returned or raised
    dispReads,    \* the read() calls the last process_file made
    dispInvoked,  \* the extractors the last process_file invoked
    dispPos0,     \* the read position when the last process_file began
    dispReread,   \* what a caller that read the file afterwards got
    engQuery,     \* the user's text given to an operation of GeminiChat
    engDoc,       \* the document text given to an operation of GeminiChat
    engOutcome,   \* what the generation endpoint does when it is called
    engPc,        \* "input", "done": one operation of GeminiChat
    engOp,        \* the operation that ran
    engSent,      \* the prompts the operation sent to the endpoint, in order
    engResult,    \* what the operation returned or raised
    messages,     \* st.session_state.messages: the conversation history
    documents,    \* st.session_state.documents: the registry, filename -> entry
    processed_content, \* st.session_state.processed_content
    uploaded_files,    \* the files of the last Process Documents click
    attempts,     \* the process_file calls of the last Process Documents click
    clock         \* the Process Documents clicks so far (datetime.now())

cleanVars == <<cleanIn, cleanOut, cleanTwice, cleanPc>>
pdfVars == <<pdfDoc, pdfPc, pdfResult, pdfHandle>>
metaVars == <<metaFile, metaPc, metaResult, metaHandle>>
docxVars == <<docxDoc, docxPc, docxResult>>
pptxVars == <<pptxDoc, pptxPc, pptxResult>>
txtVars == <<txtBytes, txtPc, txtResult>>
dispVars == <<upFile, dispPc, dispResult, dispReads, dispInvoked, dispPos0, dispReread>>
engVars == <<engQuery, engDoc, engOutcome, engPc, engOp, engSent, engResult>>
appVars == <<messages, documents, processed_content, uploaded_files, attempts, clock>>

vars == <<cleanVars, pdfVars, metaVars, docxVars, pptxVars, txtVars, dispVars, engVars,
          appVars>>

----------------------------------------------------------------------------
(* Bounds of the model *)

MaxTextLen == 5
MaxPages == 3
MaxBody == 3
MaxSlides == 2
MaxBytes == 3
MaxFileBytes == 2
MaxFillers == 11
MaxOver == 1
MaxRespTokens == 4
MaxParagraphs == 6
MaxBatch == 2
MaxBatches == 2
MaxMessages == 4

----------------------------------------------------------------------------
(* Characters and Python's str helpers *)

NL == 10
SP == 32

\* str.isspace() / the regular expression class \s on str patterns
IsSpace(c) ==
    \/ c \in 9..13
    \/ c \in 28..32
    \/ c \in {133, 160, 5760, 8232, 8233, 8239, 8287, 12288}
    \/ c \in 8192..8202

\* the class [\x00-\x08\x0B\x0C\x0E-\x1F\x7F] of _clean_text
IsControl(c) ==
    c \in (0..8) \cup {11, 12} \cup (14..31) \cup {127}

Max(S) == CHOOSE m \in S : \A k \in S : k <= m
Min(S) == CHOOSE m \in S : \A k \in S : m <= k

\* s[a..b], empty when a > b
Slice(s, a, b) == [k \in 1..(IF b >= a THEN b - a + 1 ELSE 0) |-> s[a + k - 1]]

\* str.strip(): leading and trailing whitespace removed
Strip(s) ==
    LET keep == {i \in 1..Len(s) : ~IsSpace(s[i])}
    IN  IF keep = {} THEN <<>> ELSE Slice(s, Min(keep), Max(keep))

\* the n-th smallest element of a set of numbers
Nth(S, n) == CHOOSE x \in S : Cardinality({y \in S : y <= x}) = n

IsPrefix(p, s) == Len(p) <= Len(s) /\ \A k \in 1..Len(p) : s[k] = p[k]

RECURSIVE Join(_, _)
\* sep.join(parts)
Join(parts, sep) ==
    IF parts = <<>> THEN <<>>
    ELSE IF Len(parts) = 1 THEN parts[1]
    ELSE parts[1] \o sep \o Join(Tail(parts), sep)

----------------------------------------------------------------------------
(* The Text Cleaner: DocumentProcessor._clean_text *)

\* where a match of \n\s*\n\s*\n that starts at i ends (greedy), 0 when there is none
NewlineMatchEnd(t, i) ==
    LET ends == {q \in (i + 2)..Len(t) :
                    /\ t[i] = NL
                    /\ t[q] = NL
                    /\ \A j \in (i + 1)..q : IsSpace(t[j])
                    /\ \E p \in (i + 1)..(q - 1) : t[p] = NL}
    IN  IF ends = {} THEN 0 ELSE Max(ends)

RECURSIVE CollapseNewlinesFrom(_, _)
CollapseNewlinesFrom(t, i) ==
    IF i > Len(t) THEN <<>>
    ELSE LET q == NewlineMatchEnd(t, i)
         IN  IF q = 0 THEN <<t[i]>> \o CollapseNewlinesFrom(t, i + 1)
             ELSE <<NL, NL>> \o CollapseNewlinesFrom(t, q + 1)

\* re.sub(r'\n\s*\n\s*\n', '\n\n', text): leftmost non-overlapping matches
CollapseNewlines(t) == CollapseNewlinesFrom(t, 1)

RECURSIVE CollapseSpacesFrom(_, _)
CollapseSpacesFrom(t, i) ==
    IF i > Len(t) THEN <<>>
    ELSE IF t[i] = SP /\ i < Len(t) /\ t[i + 1] = SP
         THEN LET last == Max({q \in i..Len(t) : \A j \in i..q : t[j] = SP})
              IN  <<SP>> \o CollapseSpacesFrom(t, last + 1)
         ELSE <<t[i]>> \o CollapseSpacesFrom(t, i + 1)

\* re.sub(r' {2,}', ' ', text)
CollapseSpaces(t) == CollapseSpacesFrom(t, 1)

RECURSIVE RemoveControl(_)
\* re.sub(r'[\x00-\x08\x0B\x0C\x0E-\x1F\x7F]', '', text)
RemoveControl(t) ==
    IF t = <<>> THEN <<>>
    ELSE IF IsControl(Head(t)) THEN RemoveControl(Tail(t))
    ELSE <<Head(t)>> \o RemoveControl(Tail(t))

\* _clean_text
CleanText(text) ==
    IF text = <<>> THEN <<>>
    ELSE Strip(RemoveControl(CollapseSpaces(CollapseNewlines(text))))

----------------------------------------------------------------------------
(* The PDF extractor and metadata extraction: _process_pdf, extract_metadata *)

MimePdf == "application/pdf"
MimeDocx == "application/vnd.openxmlformats-officedocument.wordprocessingml.document"
MimePptx == "application/vnd.openxmlformats-officedocument.presentationml.presentation"
MimeTxt == "text/plain"

RECURSIVE Str(_)
\* str(n) of a natural number: its decimal digits
Str(n) == IF n < 10 THEN <<48 + n>> ELSE Str(n \div 10) \o <<48 + (n % 10)>>

\* f"--- Page {n} ---"
PageHeader(n) == <<45, 45, 45, 32, 80, 97, 103, 101, 32>> \o Str(n) \o <<32, 45, 45, 45>>

PdfBlockZeroBased(page_num, text) == PageHeader(page_num) \o <<NL>> \o text

\* f"--- Page {page_num + 1} ---\n{text}"
PdfBlock(page_num, text) == PageHeader(page_num + 1) \o <<NL>> \o text

RECURSIVE PdfLoop(_, _, _)
\* the loop over range(page_count): load_page or get_text may raise, which leaves
\* the loop with the document still open
PdfLoop(doc, page_num, text_content) ==
    IF page_num >= Len(doc.pages)
    THEN [status |-> "ok", blocks |-> text_content,
          text |-> Join(text_content, <<NL, NL>>), handle |-> "closed"]
    ELSE LET page == doc.pages[page_num + 1]
         IN  IF page.fault # "none"
             THEN [status |-> "error", blocks |-> text_content, text |-> <<>>,
                   handle |-> "open"]
             ELSE IF Strip(page.text) # <<>>
                  THEN PdfLoop(doc, page_num + 1,
                               Append(text_content, PdfBlock(page_num, page.text)))
                  ELSE PdfLoop(doc, page_num + 1, text_content)

\* _process_pdf: fitz.open, the loop, close, join; any exception is wrapped and raised
ProcessPdf(doc) ==
    IF ~doc.opens
    THEN [status |-> "error", blocks |-> <<>>, text |-> <<>>, handle |-> "none"]
    ELSE PdfLoop(doc, 0, <<>>)

PdfFields == {"title", "author", "subject", "page_count"}
BaseFields == {"filename", "file_type", "file_size"}

\* dict.get(key, default)
Get(d, key, default) == IF key \in DOMAIN d THEN d[key] ELSE default

\* the base record of extract_metadata
BaseMetadata(file) ==
    [filename |-> file.name, file_type |-> file.type, file_size |-> file.size]

\* metadata.update({...}): the four PDF fields, all evaluated before any is stored
WithPdfFields(metadata, doc) ==
    [k \in DOMAIN metadata \cup PdfFields |->
        IF k = "page_count" THEN Len(doc.pages)
        ELSE IF k \in PdfFields THEN Get(doc.meta.fields, k, "")
        ELSE metadata[k]]

WantsPdfFieldsAnyType(file) == TRUE

\* if uploaded_file.type == 'application/pdf'
WantsPdfFields(file) == file.type = MimePdf

\* extract_metadata: the record returned and the state the fitz document is left in
ExtractMetadata(file, doc) ==
    LET metadata == BaseMetadata(file)
    IN  IF ~WantsPdfFields(file)
        THEN [status |-> "ok", value |-> metadata, handle |-> "none"]
        ELSE IF ~doc.opens
        THEN [status |-> "ok", value |-> metadata, handle |-> "none"]
        ELSE IF ~doc.meta.present
             \* pdf_document.metadata is None: .get raises, the except clause passes
        THEN [status |-> "ok", value |-> metadata, handle |-> "open"]
        ELSE [status |-> "ok", value |-> WithPdfFields(metadata, doc),
              handle |-> "closed"]

----------------------------------------------------------------------------
(* The DOCX extractor: _process_docx *)

\* "--- Table ---\n"
TableHeader == <<45, 45, 45, 32, 84, 97, 98, 108, 101, 32, 45, 45, 45, 10>>

\* " | "
CellSep == <<32, 124, 32>>

\* doc.paragraphs and doc.tables: the paragraphs, and the tables, of the body, each
\* list in document order
DocxParagraphs(doc) == SelectSeq(doc.body, LAMBDA e : e.kind = "p")
DocxTables(doc) == SelectSeq(doc.body, LAMBDA e : e.kind = "t")

RECURSIVE DocxParagraphLoop(_)
\* for paragraph in doc.paragraphs: if paragraph.text.strip(): append(paragraph.text)
DocxParagraphLoop(paragraphs) ==
    IF paragraphs = <<>> THEN <<>>
    ELSE IF Strip(Head(paragraphs).text) # <<>>
         THEN <<Head(paragraphs).text>> \o DocxParagraphLoop(Tail(paragraphs))
         ELSE DocxParagraphLoop(Tail(paragraphs))

RECURSIVE DocxRowText(_)
\* for cell in row.cells: if cell.text.strip(): row_text.append(cell.text.strip())
DocxRowText(cells) ==
    IF cells = <<>> THEN <<>>
    ELSE IF Strip(Head(cells)) # <<>>
         THEN <<Strip(Head(cells))>> \o DocxRowText(Tail(cells))
         ELSE DocxRowText(Tail(cells))

RECURSIVE DocxTableText(_)
\* for row in table.rows: if row_text: table_text.append(" | ".join(row_text))
DocxTableText(rows) ==
    IF rows = <<>> THEN <<>>
    ELSE IF DocxRowText(Head(rows)) # <<>>
         THEN <<Join(DocxRowText(Head(rows)), CellSep)>> \o DocxTableText(Tail(rows))
         ELSE DocxTableText(Tail(rows))

RECURSIVE DocxTableLoop(_)
\* for table in doc.tables: if table_text: append("--- Table ---\n" + "\n".join(table_text))
DocxTableLoop(tables) ==
    IF tables = <<>> THEN <<>>
    ELSE IF DocxTableText(Head(tables).rows) # <<>>
         THEN <<TableHeader \o Join(DocxTableText(Head(tables).rows), <<NL>>)>>
                  \o DocxTableLoop(Tail(tables))
         ELSE DocxTableLoop(Tail(tables))

RECURSIVE DocxBlocksInBodyOrder(_)
DocxBlocksInBodyOrder(doc) ==
    IF doc.body = <<>> THEN <<>>
    ELSE (IF Head(doc.body).kind = "p"
          THEN DocxParagraphLoop(<<Head(doc.body)>>)
          ELSE DocxTableLoop(<<Head(doc.body)>>))
         \o DocxBlocksInBodyOrder([doc EXCEPT !.body = Tail(doc.body)])

\* text_content of _process_docx: the pass over the paragraphs, then the pass over
\* the tables
DocxBlocks(doc) ==
    DocxParagraphLoop(DocxParagraphs(doc)) \o DocxTableLoop(DocxTables(doc))

\* _process_docx: Document(...) may raise, which is wrapped and raised
ProcessDocx(doc) ==
    IF ~doc.opens
    THEN [status |-> "error", blocks |-> <<>>, text |-> <<>>]
    ELSE [status |-> "ok", blocks |-> DocxBlocks(doc),
          text |-> Join(DocxBlocks(doc), <<NL, NL>>)]

----------------------------------------------------------------------------
(* The PPTX extractor: _process_pptx *)

\* f"--- Slide {n} ---"
SlideHeader(n) ==
    <<45, 45, 45, 32, 83, 108, 105, 100, 101, 32>> \o Str(n) \o <<32, 45, 45, 45>>

\* "Notes: "
NotesPrefix == <<78, 111, 116, 101, 115, 58, 32>>

RECURSIVE ShapeTexts(_)
\* for shape in slide.shapes: if hasattr(shape, "text") and shape.text.strip(): ...
ShapeTexts(shapes) ==
    IF shapes = <<>> THEN <<>>
    ELSE IF Head(shapes).hasText /\ Strip(Head(shapes).text) # <<>>
         THEN <<Strip(Head(shapes).text)>> \o ShapeTexts(Tail(shapes))
         ELSE ShapeTexts(Tail(shapes))

\* the Notes: line of a slide, if it has a notes text frame with non-blank text
NotesLines(slide) ==
    IF slide.notes.frame /\ Strip(slide.notes.text) # <<>>
    THEN <<NotesPrefix \o Strip(slide.notes.text)>>
    ELSE <<>>

\* slide_text: the header, the shape texts, the notes line
SlideText(slide_num, slide) ==
    <<SlideHeader(slide_num)>> \o ShapeTexts(slide.shapes) \o NotesLines(slide)

HasHeader(slide_text) == Len(slide_text) >= 1

\* if len(slide_text) > 1
HasContent(slide_text) == Len(slide_text) > 1

RECURSIVE PptxLoop(_, _)
\* for slide_num, slide in enumerate(prs.slides, 1)
PptxLoop(slides, slide_num) ==
    IF slide_num > Len(slides) THEN <<>>
    ELSE LET slide_text == SlideText(slide_num, slides[slide_num])
         IN  (IF HasContent(slide_text) THEN <<Join(slide_text, <<NL>>)>> ELSE <<>>)
                 \o PptxLoop(slides, slide_num + 1)

\* _process_pptx: Presentation(...) may raise, which is wrapped and raised
ProcessPptx(prs) ==
    IF ~prs.opens
    THEN [status |-> "error", blocks |-> <<>>, text |-> <<>>]
    ELSE [status |-> "ok", blocks |-> PptxLoop(prs.slides, 1),
          text |-> Join(PptxLoop(prs.slides, 1), <<NL, NL>>)]

----------------------------------------------------------------------------
(* The plain-text extractor: _process_txt *)

IsCont(b) == b \in 128..191

\* the code point and length of the UTF-8 sequence that starts at bytes[i], as
\* bytes.decode('utf-8') reads it (strict): len 0 when it is not well formed
Utf8At(bytes, i) ==
    LET b0 == bytes[i]
        has(n) == i + n <= Len(bytes) /\ \A k \in 1..n : IsCont(bytes[i + k])
        c(k) == bytes[i + k] % 64
    IN  IF b0 < 128 THEN [len |-> 1, cp |-> b0]
        ELSE IF b0 \in 192..223 /\ has(1)
        THEN LET cp == (b0 % 32) * 64 + c(1)
             IN  IF cp >= 128 THEN [len |-> 2, cp |-> cp] ELSE [len |-> 0, cp |-> 0]
        ELSE IF b0 \in 224..239 /\ has(2)
        THEN LET cp == (b0 % 16) * 4096 + c(1) * 64 + c(2)
             IN  IF cp >= 2048 /\ cp \notin 55296..57343
                 THEN [len |-> 3, cp |-> cp] ELSE [len |-> 0, cp |-> 0]
        ELSE IF b0 \in 240..247 /\ has(3)
        THEN LET cp == (b0 % 8) * 262144 + c(1) * 4096 + c(2) * 64 + c(3)
             IN  IF cp >= 65536 /\ cp <= 1114111
                 THEN [len |-> 4, cp |-> cp] ELSE [len |-> 0, cp |-> 0]
        ELSE [len |-> 0, cp |-> 0]

RECURSIVE Utf8DecodeFrom(_, _, _)
Utf8DecodeFrom(bytes, i, acc) ==
    IF i > Len(bytes) THEN [ok |-> TRUE, text |-> acc]
    ELSE LET u == Utf8At(bytes, i)
         IN  IF u.len = 0 THEN [ok |-> FALSE, text |-> <<>>]
             ELSE Utf8DecodeFrom(bytes, i + u.len, Append(acc, u.cp))

\* bytes.decode('utf-8'): the text, or UnicodeDecodeError
Utf8Decode(bytes) == Utf8DecodeFrom(bytes, 1, <<>>)

\* bytes.decode('latin-1'): every byte is the code point of its value; never fails
Latin1Decode(bytes) == [ok |-> TRUE, text |-> bytes]

ProcessTxtNoFallback(bytes) ==
    IF Utf8Decode(bytes).ok
    THEN [status |-> "ok", text |-> Utf8Decode(bytes).text, codec |-> "utf-8"]
    ELSE [status |-> "error", text |-> <<>>, codec |-> "none"]

\* _process_txt: UTF-8, on UnicodeDecodeError Latin-1, and if that fails the error
ProcessTxt(bytes) ==
    IF Utf8Decode(bytes).ok
    THEN [status |-> "ok", text |-> Utf8Decode(bytes).text, codec |-> "utf-8"]
    ELSE IF Latin1Decode(bytes).ok
    THEN [status |-> "ok", text |-> Latin1Decode(bytes).text, codec |-> "latin-1"]
    ELSE [status |-> "error", text |-> <<>>, codec |-> "none"]

----------------------------------------------------------------------------
(* The dispatcher: process_file *)

\* the keys of self.supported_formats
SupportedFormats == {MimePdf, MimeDocx, MimePptx, MimeTxt}

\* uploaded_file.read(): the bytes from the read position to the end
FileRead(file) == Slice(file.content, file.pos + 1, Len(file.content))

\* processor(file_content): the extractor of the type, run on the bytes read; lib is
\* what the parsing libraries make of those bytes
RunExtractor(type, file_content, lib) ==
    LET r == IF type = MimePdf THEN ProcessPdf(lib.pdf)
             ELSE IF type = MimeDocx THEN ProcessDocx(lib.docx)
             ELSE IF type = MimePptx THEN ProcessPptx(lib.pptx)
             ELSE ProcessTxt(file_content)
    IN  [status |-> r.status, text |-> r.text]

\* the outcome of process_file once the bytes are read and an extractor has run
Extracted(file, lib, posAfterOk, posAfterError) ==
    LET extracted == RunExtractor(file.type, FileRead(file), lib)
    IN  IF extracted.status = "ok"
        THEN [status |-> "ok", text |-> CleanText(extracted.text), pos |-> posAfterOk,
              reads |-> 1, invoked |-> <<file.type>>]
        ELSE [status |-> "error", text |-> <<>>, pos |-> posAfterError,
              reads |-> 1, invoked |-> <<file.type>>]

Unsupported(file) ==
    [status |-> "unsupported", text |-> <<>>, pos |-> file.pos, reads |-> 0,
     invoked |-> <<>>]

ProcessFileReadFirst(file, lib) ==
    IF file.type \notin SupportedFormats
    THEN [Unsupported(file) EXCEPT !.pos = 0, !.reads = 1]
    ELSE Extracted(file, lib, 0, 0)

ProcessFileSeekLast(file, lib) ==
    IF file.type \notin SupportedFormats
    THEN Unsupported(file)
    ELSE Extracted(file, lib, 0, Len(file.content))

\* process_file: the type check, read(), seek(0), the extractor, _clean_text
ProcessFile(file, lib) ==
    IF file.type \notin SupportedFormats
    THEN Unsupported(file)
    ELSE Extracted(file, lib, 0, 0)

----------------------------------------------------------------------------
(* The conversation engine: GeminiChat (src/gemini_integration.py)

   A prompt is an f-string: fixed text with holes.  The model keeps a prompt as
   the record of its template and of what fills the holes: the instruction
   chosen from a table, the document text embedded and the user's text embedded.
   The endpoint's outcome is what model.generate_content does when called:
   it returns a response with text, it raises, or it returns a response whose
   .text raises (a blocked response). *)

\* str.lower() on the letters A-Z
LowerChar(c) == IF c \in 65..90 THEN c + 32 ELSE c

Lower(s) == [k \in 1..Len(s) |-> LowerChar(s[k])]

\* needle in haystack
Contains(haystack, needle) ==
    \E i \in 0..(Len(haystack) - Len(needle)) :
        \A k \in 1..Len(needle) : haystack[i + k] = needle[k]

\* where the tokens of str.split() begin: the maximal runs without whitespace
TokenStarts(s) == {i \in 1..Len(s) : ~IsSpace(s[i]) /\ (i = 1 \/ IsSpace(s[i - 1]))}

TokenEnd(s, i) == Min({j \in i..Len(s) : j = Len(s) \/ IsSpace(s[j + 1])})

\* s.split()
SplitWs(s) ==
    [n \in 1..Cardinality(TokenStarts(s)) |->
        LET i == Nth(TokenStarts(s), n) IN SubSeq(s, i, TokenEnd(s, i))]

\* '❌ Varsha Error: '
VarshaError ==
    <<10060, 32, 86, 97, 114, 115, 104, 97, 32, 69, 114, 114, 111, 114, 58, 32>>

\* 'I encountered an error while processing your request: '
GeneralChatError ==
    <<73, 32, 101, 110, 99, 111, 117, 110, 116, 101, 114, 101, 100, 32, 97, 110, 32,
    101, 114, 114, 111, 114, 32, 119, 104, 105, 108, 101, 32, 112, 114, 111, 99, 101,
    115, 115, 105, 110, 103, 32, 121, 111, 117, 114, 32, 114, 101, 113, 117, 101, 115,
    116, 58, 32>>

\* '. Please try rephrasing your question.'
GeneralChatErrorEnd ==
    <<46, 32, 80, 108, 101, 97, 115, 101, 32, 116, 114, 121, 32, 114, 101, 112, 104,
    114, 97, 115, 105, 110, 103, 32, 121, 111, 117, 114, 32, 113, 117, 101, 115, 116,
    105, 111, 110, 46>>

\* 'Error generating response: '
DocumentChatError ==
    <<69, 114, 114, 111, 114, 32, 103, 101, 110, 101, 114, 97, 116, 105, 110, 103, 32,
    114, 101, 115, 112, 111, 110, 115, 101, 58, 32>>

\* '\n\n💡 **Note**: If you want me to answer this question based on your uploaded
\* documents, please rephrase your question to reference the documents specifically.'
Notice ==
    <<10, 10, 128161, 32, 42, 42, 78, 111, 116, 101, 42, 42, 58, 32, 73, 102, 32, 121,
    111, 117, 32, 119, 97, 110, 116, 32, 109, 101, 32, 116, 111, 32, 97, 110, 115, 119,
    101, 114, 32, 116, 104, 105, 115, 32, 113, 117, 101, 115, 116, 105, 111, 110, 32,
    98, 97, 115, 101, 100, 32, 111, 110, 32, 121, 111, 117, 114, 32, 117, 112, 108, 111,
    97, 100, 101, 100, 32, 100, 111, 99, 117, 109, 101, 110, 116, 115, 44, 32, 112, 108,
    101, 97, 115, 101, 32, 114, 101, 112, 104, 114, 97, 115, 101, 32, 121, 111, 117,
    114, 32, 113, 117, 101, 115, 116, 105, 111, 110, 32, 116, 111, 32, 114, 101, 102,
    101, 114, 101, 110, 99, 101, 32, 116, 104, 101, 32, 100, 111, 99, 117, 109, 101,
    110, 116, 115, 32, 115, 112, 101, 99, 105, 102, 105, 99, 97, 108, 108, 121, 46>>

\* '\n\n[Content truncated...]'
TruncationMarker ==
    <<10, 10, 91, 67, 111, 110, 116, 101, 110, 116, 32, 116, 114, 117, 110, 99, 97, 116,
    101, 100, 46, 46, 46, 93>>

\* doc_keywords of intelligent_chat
DocKeywords ==
    {   <<100, 111, 99, 117, 109, 101, 110, 116>>,        \* document
        <<116, 101, 120, 116>>,                           \* text
        <<102, 105, 108, 101>>,                           \* file
        <<117, 112, 108, 111, 97, 100, 101, 100>>,        \* uploaded
        <<116, 104, 105, 115>>,                           \* this
        <<97, 98, 111, 118, 101>>,                        \* above
        <<99, 111, 110, 116, 101, 110, 116>>,             \* content
        <<112, 97, 112, 101, 114>>,                       \* paper
        <<112, 100, 102>>,                                \* pdf
        <<115, 117, 109, 109, 97, 114, 105, 122, 101>>,   \* summarize
        <<97, 110, 97, 108, 121, 122, 101>> }             \* analyze

\* max_content_length of _create_document_prompt
MaxContentLength == 15000

\* the token count above which intelligent_chat takes a query for a document query
LongQueryTokens == 10

\* what an operation of GeminiChat returns: its value and the prompts it sent
Returned(text, sent) ==
    [status |-> "returned", text |-> text, score |-> 0, category |-> "", sent |-> sent]

GenerateSwallowing(outcome) ==
    IF outcome.kind = "raises" THEN [kind |-> "text", text |-> <<>>] ELSE outcome

\* self.generate(prompt): one call of the endpoint; when the call raises, a
\* FakeResponse whose text is the error message
Generate(outcome) ==
    IF outcome.kind = "raises"
    THEN [kind |-> "text", text |-> VarshaError \o outcome.text]
    ELSE outcome

\* response = self.generate(prompt); return response.text, inside try/except
\* Exception that returns an f-string around str(e)
GenerateText(prompt, outcome, errorHead, errorTail) ==
    LET response == Generate(outcome)
    IN  IF response.kind = "text"
        THEN Returned(response.text, <<prompt>>)
        ELSE Returned(errorHead \o response.text \o errorTail, <<prompt>>)

GeneralPrompt(user_query) ==
    [template |-> "general_chat", instruction |-> "", document |-> <<>>,
     query |-> user_query]

\* general_chat
GeneralChat(user_query, outcome) ==
    GenerateText(GeneralPrompt(user_query), outcome, GeneralChatError, GeneralChatErrorEnd)

CreateDocumentPromptUncut(user_query, document_content) ==
    [template |-> "document_chat", instruction |-> "", document |-> document_content,
     query |-> user_query]

\* _create_document_prompt
CreateDocumentPrompt(user_query, document_content) ==
    [template |-> "document_chat", instruction |-> "",
     document |-> IF Len(document_content) > MaxContentLength
                  THEN SubSeq(document_content, 1, MaxContentLength) \o TruncationMarker
                  ELSE document_content,
     query |-> user_query]

\* chat_with_documents
ChatWithDocuments(user_query, document_content, outcome) ==
    GenerateText(CreateDocumentPrompt(user_query, document_content), outcome,
                 DocumentChatError, <<>>)

IsDocRelatedCaseSensitive(user_query) ==
    \E keyword \in DocKeywords : Contains(user_query, keyword)

\* is_doc_related: any(keyword in query_lower for keyword in doc_keywords)
IsDocRelated(user_query) ==
    \E keyword \in DocKeywords : Contains(Lower(user_query), keyword)

\* intelligent_chat
IntelligentChat(user_query, document_content, outcome) ==
    IF Strip(document_content) # <<>>
    THEN IF IsDocRelated(user_query) \/ Len(SplitWs(user_query)) > LongQueryTokens
         THEN ChatWithDocuments(user_query, document_content, outcome)
         ELSE LET general_response == GeneralChat(user_query, outcome)
              IN  [general_response EXCEPT !.text = @ \o Notice]
    ELSE GeneralChat(user_query, outcome)

\* s[:n]
FirstN(s, n) == SubSeq(s, 1, IF Len(s) < n THEN Len(s) ELSE n)

\* the characters summarize_document embeds
SummaryLimit == 12000

\* the keys of summary_prompts
SummaryTypes == {"general", "executive", "bullet", "abstract"}

\* 'Error generating summary: '
SummaryError ==
    <<69, 114, 114, 111, 114, 32, 103, 101, 110, 101, 114, 97, 116, 105, 110, 103, 32,
    115, 117, 109, 109, 97, 114, 121, 58, 32>>

\* summarize_document
SummarizeDocument(document_content, summary_type, outcome) ==
    GenerateText([template |-> "summary",
                  instruction |-> IF summary_type \in SummaryTypes THEN summary_type
                                  ELSE "general",
                  document |-> FirstN(document_content, SummaryLimit),
                  query |-> <<>>],
                 outcome, SummaryError, <<>>)

\* the characters extract_key_information embeds
ExtractLimit == 12000

\* the keys of extraction_prompts
ExtractionTypes == {"entities", "keywords", "topics", "facts", "conclusions"}

\* 'Error extracting information: '
ExtractionError ==
    <<69, 114, 114, 111, 114, 32, 101, 120, 116, 114, 97, 99, 116, 105, 110, 103, 32,
    105, 110, 102, 111, 114, 109, 97, 116, 105, 111, 110, 58, 32>>

\* extract_key_information
ExtractKeyInformation(document_content, info_type, outcome) ==
    GenerateText([template |-> "extraction",
                  instruction |-> IF info_type \in ExtractionTypes THEN info_type
                                  ELSE "keywords",
                  document |-> FirstN(document_content, ExtractLimit),
                  query |-> <<>>],
                 outcome, ExtractionError, <<>>)

\* the characters answer_question embeds
AnswerLimit == 12000

\* 'Error answering question: '
AnswerError ==
    <<69, 114, 114, 111, 114, 32, 97, 110, 115, 119, 101, 114, 105, 110, 103, 32, 113,
    117, 101, 115, 116, 105, 111, 110, 58, 32>>

\* answer_question
AnswerQuestion(question, document_content, outcome) ==
    GenerateText([template |-> "answer", instruction |-> "",
                  document |-> FirstN(document_content, AnswerLimit),
                  query |-> question],
                 outcome, AnswerError, <<>>)

\* 'Error processing search: '
SearchError ==
    <<69, 114, 114, 111, 114, 32, 112, 114, 111, 99, 101, 115, 115, 105, 110, 103, 32,
    115, 101, 97, 114, 99, 104, 58, 32>>

\* "No relevant information found for '"
NoRelevantHead ==
    <<78, 111, 32, 114, 101, 108, 101, 118, 97, 110, 116, 32, 105, 110, 102, 111, 114,
    109, 97, 116, 105, 111, 110, 32, 102, 111, 117, 110, 100, 32, 102, 111, 114, 32,
    39>>

\* "' in the uploaded documents."
NoRelevantTail ==
    <<39, 32, 105, 110, 32, 116, 104, 101, 32, 117, 112, 108, 111, 97, 100, 101, 100,
    32, 100, 111, 99, 117, 109, 101, 110, 116, 115, 46>>

\* 'Section '
SectionHead == <<83, 101, 99, 116, 105, 111, 110, 32>>

\* ': '
SectionSep == <<58, 32>>

\* the newlines that directly precede position i
NewlinesBefore(t, i) == i - Min({j \in 1..i : \A k \in j..(i - 1) : t[k] = NL})

\* where str.split('\n\n') finds its separator: scanning from the left, without
\* overlap, so at every second newline of a run
BlankLineStarts(t) ==
    {i \in 1..(Len(t) - 1) : t[i] = NL /\ t[i + 1] = NL /\ NewlinesBefore(t, i) % 2 = 0}

\* document_content.split('\n\n')
SplitBlank(t) ==
    LET starts == BlankLineStarts(t)
        n == Cardinality(starts)
    IN  [p \in 1..(n + 1) |->
            Slice(t, IF p = 1 THEN 1 ELSE Nth(starts, p - 1) + 2,
                     IF p = n + 1 THEN Len(t) ELSE Nth(starts, p) - 1)]

\* any(keyword in paragraph.lower() for keyword in keywords)
IsRelevant(paragraph, keywords) ==
    \E n \in 1..Len(keywords) : Contains(Lower(paragraph), keywords[n])

\* f"Section {i+1}: {paragraph}", i counting from 0
Section(number, paragraph) == SectionHead \o Str(number) \o SectionSep \o paragraph

\* the numbers, from 1, of the paragraphs that pass the test
RelevantParagraphs(paragraphs, keywords) ==
    {i \in 1..Len(paragraphs) : IsRelevant(paragraphs[i], keywords)}

\* relevant_sections
RelevantSections(paragraphs, keywords) ==
    LET relevant == RelevantParagraphs(paragraphs, keywords)
    IN  [n \in 1..Cardinality(relevant) |->
            Section(Nth(relevant, n), paragraphs[Nth(relevant, n)])]

\* the sections search_in_documents puts in a prompt
SectionLimit == 5

AllSections(relevant_sections) == relevant_sections

\* relevant_sections[:5]
FirstSections(relevant_sections) == FirstN(relevant_sections, SectionLimit)

\* search_in_documents
SearchInDocuments(search_query, document_content, outcome) ==
    LET keywords == SplitWs(Lower(search_query))
        paragraphs == SplitBlank(document_content)
        relevant_sections == RelevantSections(paragraphs, keywords)
    IN  IF relevant_sections # <<>>
        THEN GenerateText([template |-> "search", instruction |-> "",
                           document |-> Join(FirstSections(relevant_sections), <<NL, NL>>),
                           query |-> search_query],
                          outcome, SearchError, <<>>)
        ELSE Returned(NoRelevantHead \o search_query \o NoRelevantTail, <<>>)

\* the characters analyze_sentiment embeds
SentimentLimit == 8000

\* 'Error in sentiment analysis: '
SentimentError ==
    <<69, 114, 114, 111, 114, 32, 105, 110, 32, 115, 101, 110, 116, 105, 109, 101, 110,
    116, 32, 97, 110, 97, 108, 121, 115, 105, 115, 58, 32>>

\* 'SCORE:'
ScoreTag == <<83, 67, 79, 82, 69, 58>>

\* the class \d on the digits 0-9
IsDigit(c) == c \in 48..57

RECURSIVE Pow10(_)
Pow10(n) == IF n = 0 THEN 1 ELSE 10 * Pow10(n - 1)

\* a sentiment score is kept as a whole number of units of 1 / ScoreScale; the
\* scores of the model have fewer decimals than that
ScoreScale == Pow10(MaxRespTokens)

\* the first position from i on that is past the text or holds no whitespace: \s*
SpacesEnd(t, i) == Min({j \in i..(Len(t) + 1) : j = Len(t) + 1 \/ ~IsSpace(t[j])})

\* the first position from i on that is past the text or holds no digit: \d*
DigitsEnd(t, i) == Min({j \in i..(Len(t) + 1) : j = Len(t) + 1 \/ ~IsDigit(t[j])})

\* what ([-+]?\d*\.?\d+) matches at position j, with the backtracking of re: the
\* sign, the digits before the point and the digits after it
NumberAt(t, j) ==
    LET signed == j <= Len(t) /\ t[j] \in {43, 45}
        s == IF signed THEN j + 1 ELSE j
        d == DigitsEnd(t, s)
        pointed == d + 1 <= Len(t) /\ t[d] = 46 /\ IsDigit(t[d + 1])
    IN  IF pointed
        THEN [found |-> TRUE, negative |-> signed /\ t[j] = 45,
              whole |-> Slice(t, s, d - 1),
              decimals |-> Slice(t, d + 1, DigitsEnd(t, d + 1) - 1)]
        ELSE IF d > s
        THEN [found |-> TRUE, negative |-> signed /\ t[j] = 45,
              whole |-> Slice(t, s, d - 1), decimals |-> <<>>]
        ELSE [found |-> FALSE, negative |-> FALSE, whole |-> <<>>, decimals |-> <<>>]

TagAt(t, i) == i + Len(ScoreTag) - 1 <= Len(t) /\ \A k \in 1..Len(ScoreTag) : t[i + k - 1] = ScoreTag[k]

\* the positions where SCORE:\s*([-+]?\d*\.?\d+) matches
ScoreMatches(t) ==
    {i \in 1..Len(t) : TagAt(t, i) /\ NumberAt(t, SpacesEnd(t, i + Len(ScoreTag))).found}

RECURSIVE DigitsValue(_)
\* int() of a run of digits, 0 for the empty run
DigitsValue(digits) ==
    IF digits = <<>> THEN 0
    ELSE 10 * DigitsValue(SubSeq(digits, 1, Len(digits) - 1)) + (digits[Len(digits)] - 48)

\* float(score_match.group(1)), in units of 1 / ScoreScale
FloatOf(number) ==
    LET magnitude == DigitsValue(number.whole) * ScoreScale
                     + DigitsValue(number.decimals)
                       * Pow10(MaxRespTokens - Len(number.decimals))
    IN  IF number.negative THEN 0 - magnitude ELSE magnitude

Unclamped(score) == score

\* max(-1.0, min(1.0, score))
Clamp(score) ==
    IF score > ScoreScale THEN ScoreScale
    ELSE IF score < 0 - ScoreScale THEN 0 - ScoreScale
    ELSE score

\* re.search(...) on the response text, float() and the clamp; 0.0 without a match
ParseScore(response_text) ==
    LET matches == ScoreMatches(response_text)
    IN  IF matches = {} THEN 0
        ELSE Clamp(FloatOf(NumberAt(response_text,
                                    SpacesEnd(response_text, Min(matches) + Len(ScoreTag)))))

\* 'positive' if score > 0.1 else 'negative' if score < -0.1 else 'neutral'
Category(score) ==
    IF 10 * score > ScoreScale THEN "positive"
    ELSE IF 10 * score < 0 - ScoreScale THEN "negative"
    ELSE "neutral"

\* analyze_sentiment: the record it returns, detailed_analysis as text
AnalyzeSentiment(text, outcome) ==
    LET prompt == [template |-> "sentiment", instruction |-> "",
                   document |-> FirstN(text, SentimentLimit), query |-> <<>>]
        response == Generate(outcome)
    IN  IF response.kind = "text"
        THEN [status |-> "returned", text |-> response.text,
              score |-> ParseScore(response.text),
              category |-> Category(ParseScore(response.text)), sent |-> <<prompt>>]
        ELSE [status |-> "returned", text |-> SentimentError \o response.text,
              score |-> 0, category |-> "neutral", sent |-> <<prompt>>]

----------------------------------------------------------------------------
(* The session of the application: st.session_state (src/streamlit_app.py)

   A Python dict is a sequence of keys with their values, in insertion order.
   An uploaded file carries, besides its name and bytes, what the parsing
   libraries make of its bytes. *)

DictHas(d, key) == \E i \in 1..Len(d) : d[i].key = key

\* d[key] = value: in place for a key of the dict, at the end for a new key
DictSet(d, key, value) ==
    IF DictHas(d, key)
    THEN [i \in 1..Len(d) |-> IF d[i].key = key THEN [key |-> key, value |-> value]
                              ELSE d[i]]
    ELSE Append(d, [key |-> key, value |-> value])

RECURSIVE DictUpdate(_, _)
\* d.update(other)
DictUpdate(d, other) ==
    IF other = <<>> THEN d
    ELSE DictUpdate(DictSet(d, Head(other).key, Head(other).value), Tail(other))

\* the entry of a processed file in processed_docs
Entry(file, extracted_text, now) ==
    [content |-> extracted_text, type |-> file.upload.type, size |-> file.size,
     processed_at |-> now]

RECURSIVE ProcessLoopStopping(_, _, _, _)
ProcessLoopStopping(files, processed_docs, log, now) ==
    IF files = <<>> THEN [processed_docs |-> processed_docs, attempts |-> log]
    ELSE LET file == Head(files)
             step(extracted) ==
                 LET logged == Append(log, [name |-> file.name,
                                            status |-> extracted.status])
                 IN  IF extracted.status = "ok"
                     THEN ProcessLoopStopping(Tail(files),
                                              DictSet(processed_docs, file.name,
                                                      Entry(file, extracted.text, now)),
                                              logged, now)
                     ELSE [processed_docs |-> processed_docs, attempts |-> logged]
         IN  step(ProcessFile(file.upload, file.lib))

RECURSIVE ProcessLoop(_, _, _, _)
\* for i, file in enumerate(uploaded_files): process_file in try/except Exception
ProcessLoop(files, processed_docs, log, now) ==
    IF files = <<>> THEN [processed_docs |-> processed_docs, attempts |-> log]
    ELSE LET file == Head(files)
             step(extracted) ==
                 LET logged == Append(log, [name |-> file.name,
                                            status |-> extracted.status])
                 IN  IF extracted.status = "ok"
                     THEN ProcessLoop(Tail(files),
                                      DictSet(processed_docs, file.name,
                                              Entry(file, extracted.text, now)),
                                      logged, now)
                     ELSE ProcessLoop(Tail(files), processed_docs, logged, now)
         IN  step(ProcessFile(file.upload, file.lib))

\* "\n\n".join([doc['content'] for doc in docs.values()])
JoinContents(docs) == Join([i \in 1..Len(docs) |-> docs[i].value.content], <<NL, NL>>)

\* the Process Documents handler: the loop, documents.update(processed_docs) and
\* the new processed_content
ProcessDocumentsHandler(registry, files, now) ==
    LET finish(loop) ==
            [documents |-> DictUpdate(registry, loop.processed_docs),
             processed_content |-> JoinContents(loop.processed_docs),
             attempts |-> loop.attempts]
    IN  finish(ProcessLoop(files, <<>>, <<>>, now))

\* a message of st.session_state.messages
Message(role, content) == [role |-> role, content |-> content]

\* the suggestions of the start page, each an emoji, a space and a prompt
Suggestions ==
    <<
        \* 'Hello Varsha, how are you?'
        <<128075, 32, 72, 101, 108, 108, 111, 32, 86, 97, 114, 115, 104, 97, 44, 32,
        104, 111, 119, 32, 97, 114, 101, 32, 121, 111, 117, 63>>,
        \* 'What can you help me with?'
        <<129300, 32, 87, 104, 97, 116, 32, 99, 97, 110, 32, 121, 111, 117, 32, 104,
        101, 108, 112, 32, 109, 101, 32, 119, 105, 116, 104, 63>>,
        \* 'Explain quantum computing simply'
        <<128300, 32, 69, 120, 112, 108, 97, 105, 110, 32, 113, 117, 97, 110, 116, 117,
        109, 32, 99, 111, 109, 112, 117, 116, 105, 110, 103, 32, 115, 105, 109, 112,
        108, 121>>,
        \* 'Help me write a creative story'
        <<9997, 65039, 32, 72, 101, 108, 112, 32, 109, 101, 32, 119, 114, 105, 116, 101,
        32, 97, 32, 99, 114, 101, 97, 116, 105, 118, 101, 32, 115, 116, 111, 114, 121>>,
        \* 'What's machine learning?'
        <<128202, 32, 87, 104, 97, 116, 39, 115, 32, 109, 97, 99, 104, 105, 110, 101,
        32, 108, 101, 97, 114, 110, 105, 110, 103, 63>>,
        \* 'Tell me about climate change'
        <<127757, 32, 84, 101, 108, 108, 32, 109, 101, 32, 97, 98, 111, 117, 116, 32,
        99, 108, 105, 109, 97, 116, 101, 32, 99, 104, 97, 110, 103, 101>>
    >>

\* suggestion.split(" ", 1)[1] if " " in suggestion else suggestion
SuggestionPrompt(suggestion) ==
    LET spaces == {i \in 1..Len(suggestion) : suggestion[i] = SP}
    IN  IF spaces = {} THEN suggestion
        ELSE SubSeq(suggestion, Min(spaces) + 1, Len(suggestion))

\* 'Sorry, I encountered an error: '
SorryError ==
    <<83, 111, 114, 114, 121, 44, 32, 73, 32, 101, 110, 99, 111, 117, 110, 116, 101,
    114, 101, 100, 32, 97, 110, 32, 101, 114, 114, 111, 114, 58, 32>>

\* '**Summary:**\n\n'
SummaryLabel == <<42, 42, 83, 117, 109, 109, 97, 114, 121, 58, 42, 42, 10, 10>>

\* '**Keywords:**\n\n'
KeywordsLabel == <<42, 42, 75, 101, 121, 119, 111, 114, 100, 115, 58, 42, 42, 10, 10>>

\* the characters of processed_content the Sentiment button passes on
SentimentPreview == 2000

ChatExchangeSilent(prompt, content, outcome) ==
    LET response == IntelligentChat(prompt, content, outcome)
    IN  IF outcome.kind = "text"
        THEN [call |-> response,
              appended |-> <<Message("user", prompt), Message("assistant", response.text)>>]
        ELSE [call |-> response, appended |-> <<Message("user", prompt)>>]

\* what the chat input handler and the auto message handler append: the user's
\* message, then the reply of intelligent_chat, or the error text when it raised
ChatExchange(prompt, content, outcome) ==
    LET response == IntelligentChat(prompt, content, outcome)
    IN  IF response.status = "returned"
        THEN [call |-> response,
              appended |-> <<Message("user", prompt), Message("assistant", response.text)>>]
        ELSE [call |-> response,
              appended |-> <<Message("user", prompt),
                             Message("assistant", SorryError \o response.text)>>]

----------------------------------------------------------------------------
(* The state of a component that a specification does not exercise *)

CleanIdle ==
    /\ cleanIn = <<>>
    /\ cleanOut = <<>>
    /\ cleanTwice = <<>>
    /\ cleanPc = "input"

NoPdfResult == [status |-> "none", blocks |-> <<>>, text |-> <<>>, handle |-> "none"]
NoMetaResult == [status |-> "none", value |-> <<>>, handle |-> "none"]

PdfIdle ==
    /\ pdfDoc = [opens |-> FALSE, pages |-> <<>>, meta |-> [present |-> FALSE, fields |-> <<>>]]
    /\ pdfPc = "input"
    /\ pdfResult = NoPdfResult
    /\ pdfHandle = "none"
    /\ metaFile = [name |-> "f", type |-> MimeTxt, size |-> 7]
    /\ metaPc = "input"
    /\ metaResult = NoMetaResult
    /\ metaHandle = "none"

NoExtract == [status |-> "none", blocks |-> <<>>, text |-> <<>>]

DocxIdle ==
    /\ docxDoc = [opens |-> FALSE, body |-> <<>>]
    /\ docxPc = "input"
    /\ docxResult = NoExtract

PptxIdle ==
    /\ pptxDoc = [opens |-> FALSE, slides |-> <<>>]
    /\ pptxPc = "input"
    /\ pptxResult = NoExtract

NoTxtResult == [status |-> "none", text |-> <<>>, codec |-> "none"]

TxtIdle ==
    /\ txtBytes = <<>>
    /\ txtPc = "input"
    /\ txtResult = NoTxtResult

NoDispResult == [status |-> "none", text |-> <<>>]

DispIdle ==
    /\ upFile = [type |-> MimeTxt, content |-> <<>>, pos |-> 0]
    /\ dispPc = "uploaded"
    /\ dispResult = NoDispResult
    /\ dispReads = 0
    /\ dispInvoked = <<>>
    /\ dispPos0 = 0
    /\ dispReread = <<>>

NoOutcome == [kind |-> "none", text |-> <<>>]

NoEngResult ==
    [status |-> "none", text |-> <<>>, score |-> 0, category |-> "", sent |-> <<>>]

EngIdle ==
    /\ engQuery = <<>>
    /\ engDoc = <<>>
    /\ engOutcome = NoOutcome
    /\ engPc = "input"
    /\ engOp = "none"
    /\ engSent = <<>>
    /\ engResult = NoEngResult

AppIdle ==
    /\ messages = <<>>
    /\ documents = <<>>
    /\ processed_content = <<>>
    /\ uploaded_files = <<>>
    /\ attempts = <<>>
    /\ clock = 0

----------------------------------------------------------------------------
(* SpecPdf: _process_pdf and extract_metadata on every small PDF *)

PageTexts == {<<>>, <<SP, NL>>, <<97, NL>>}

PdfPages ==
    {[fault |-> "none", text |-> t] : t \in PageTexts}
        \cup {[fault |-> f, text |-> <<>>] : f \in {"load", "text"}}

PdfMetas ==
    {[present |-> FALSE, fields |-> <<>>],
     [present |-> TRUE, fields |-> [title |-> "T", author |-> "A", subject |-> "S"]],
     [present |-> TRUE, fields |-> [title |-> "T"]]}

PdfDocs ==
    {[opens |-> o, pages |-> p, meta |-> m] :
        o \in BOOLEAN,
        p \in UNION {[1..n -> PdfPages] : n \in 0..MaxPages},
        m \in PdfMetas}

MetaFiles ==
    {[name |-> "f", type |-> t, size |-> 7] : t \in {MimePdf, MimeTxt, "image/png"}}

InitPdf ==
    /\ pdfDoc \in PdfDocs
    /\ pdfPc = "input"
    /\ pdfResult = NoPdfResult
    /\ pdfHandle = "none"
    /\ metaFile \in MetaFiles
    /\ metaPc = "input"
    /\ metaResult = NoMetaResult
    /\ metaHandle = "none"
    /\ CleanIdle /\ DocxIdle /\ PptxIdle /\ TxtIdle /\ DispIdle /\ EngIdle /\ AppIdle

DoProcessPdf ==
    /\ pdfPc = "input"
    /\ pdfResult' = ProcessPdf(pdfDoc)
    /\ pdfHandle' = ProcessPdf(pdfDoc).handle
    /\ pdfPc' = "done"
    /\ UNCHANGED <<pdfDoc, metaVars, cleanVars, docxVars, pptxVars, txtVars, dispVars,
                   engVars, appVars>>

DoExtractMetadata ==
    /\ metaPc = "input"
    /\ metaResult' = ExtractMetadata(metaFile, pdfDoc)
    /\ metaHandle' = ExtractMetadata(metaFile, pdfDoc).handle
    /\ metaPc' = "done"
    /\ UNCHANGED <<metaFile, pdfVars, cleanVars, docxVars, pptxVars, txtVars, dispVars,
                   engVars, appVars>>

NextPdf == DoProcessPdf \/ DoExtractMetadata

SpecPdf == InitPdf /\ [][NextPdf]_vars

----------------------------------------------------------------------------
(* SpecClean: the cleaner applied to every text over CleanAlphabet, and then
   applied again to its own output *)

\* 'a', space, newline, \x01 (control, not whitespace), \x1c (control and whitespace)
CleanAlphabet == {97, SP, NL, 1, 28}

CleanTexts == UNION {[1..n -> CleanAlphabet] : n \in 0..MaxTextLen}

InitClean ==
    /\ cleanIn \in CleanTexts
    /\ cleanOut = <<>>
    /\ cleanTwice = <<>>
    /\ cleanPc = "input"
    /\ PdfIdle /\ DocxIdle /\ PptxIdle /\ TxtIdle /\ DispIdle /\ EngIdle /\ AppIdle

CleanOnce ==
    /\ cleanPc = "input"
    /\ cleanOut' = CleanText(cleanIn)
    /\ cleanPc' = "cleaned"
    /\ UNCHANGED <<cleanIn, cleanTwice, pdfVars, metaVars, docxVars, pptxVars, txtVars, dispVars,
                   engVars, appVars>>

CleanAgain ==
    /\ cleanPc = "cleaned"
    /\ cleanTwice' = CleanText(cleanOut)
    /\ cleanPc' = "recleaned"
    /\ UNCHANGED <<cleanIn, cleanOut, pdfVars, metaVars, docxVars, pptxVars, txtVars, dispVars,
                   engVars, appVars>>

NextClean == CleanOnce \/ CleanAgain

SpecClean == InitClean /\ [][NextClean]_vars

----------------------------------------------------------------------------
(* SpecDocx: _process_docx on every small Word document *)

ParagraphTexts == {<<SP>>, <<97>>, <<SP, 98>>}

\* tables: without rows; with blank cells only; two rows, one cell to trim; a blank
\* row between two rows, a blank cell before a non-blank one
TableSamples ==
    {<<>>,
     <<<<<<SP>>, <<>>>>, <<>>>>,
     <<<<<<99>>>>, <<<<SP, 100, SP>>, <<SP>>>>>>,
     <<<<<<>>, <<99>>>>, <<<<SP>>>>, <<<<99>>, <<100>>>>>>}

DocxElements ==
    {[kind |-> "p", text |-> t, rows |-> <<>>] : t \in ParagraphTexts}
        \cup {[kind |-> "t", text |-> <<>>, rows |-> r] : r \in TableSamples}

DocxDocs ==
    {[opens |-> o, body |-> b] :
        o \in BOOLEAN, b \in UNION {[1..n -> DocxElements] : n \in 0..MaxBody}}

InitDocx ==
    /\ docxDoc \in DocxDocs
    /\ docxPc = "input"
    /\ docxResult = NoExtract
    /\ CleanIdle /\ PdfIdle /\ PptxIdle /\ TxtIdle /\ DispIdle /\ EngIdle /\ AppIdle

DoProcessDocx ==
    /\ docxPc = "input"
    /\ docxResult' = ProcessDocx(docxDoc)
    /\ docxPc' = "done"
    /\ UNCHANGED <<docxDoc, cleanVars, pdfVars, metaVars, pptxVars, txtVars, dispVars,
                   engVars, appVars>>

NextDocx == DoProcessDocx

SpecDocx == InitDocx /\ [][NextDocx]_vars

----------------------------------------------------------------------------
(* SpecPptx: _process_pptx on every small presentation *)

\* shape lists: none; a shape without a text attribute; a blank text; texts to trim
\* around a shape without text
ShapeSamples ==
    {<<>>,
     <<[hasText |-> FALSE, text |-> <<>>]>>,
     <<[hasText |-> TRUE, text |-> <<SP>>]>>,
     <<[hasText |-> TRUE, text |-> <<SP, 97>>], [hasText |-> FALSE, text |-> <<>>],
       [hasText |-> TRUE, text |-> <<98>>]>>}

NotesSamples ==
    {[frame |-> FALSE, text |-> <<>>],
     [frame |-> TRUE, text |-> <<SP>>],
     [frame |-> TRUE, text |-> <<110, NL>>]}

PptxSlides == {[shapes |-> sh, notes |-> n] : sh \in ShapeSamples, n \in NotesSamples}

PptxDocs ==
    {[opens |-> o, slides |-> sl] :
        o \in BOOLEAN, sl \in UNION {[1..n -> PptxSlides] : n \in 0..MaxSlides}}

InitPptx ==
    /\ pptxDoc \in PptxDocs
    /\ pptxPc = "input"
    /\ pptxResult = NoExtract
    /\ CleanIdle /\ PdfIdle /\ DocxIdle /\ TxtIdle /\ DispIdle /\ EngIdle /\ AppIdle

DoProcessPptx ==
    /\ pptxPc = "input"
    /\ pptxResult' = ProcessPptx(pptxDoc)
    /\ pptxPc' = "done"
    /\ UNCHANGED <<pptxDoc, cleanVars, pdfVars, metaVars, docxVars, txtVars, dispVars,
                   engVars, appVars>>

NextPptx == DoProcessPptx

SpecPptx == InitPptx /\ [][NextPptx]_vars

----------------------------------------------------------------------------
(* SpecTxt: _process_txt on every short byte sequence over TxtAlphabet *)

\* 'a'; C3 A9 (e acute); E2 82 AC (euro sign); ED A0 .. (a surrogate, not UTF-8);
\* C0 (an overlong lead byte, not UTF-8); F0 (lead byte of a 4-byte sequence)
TxtAlphabet == {97, 195, 169, 226, 130, 172, 237, 160, 192, 240}

TxtInputs == UNION {[1..n -> TxtAlphabet] : n \in 0..MaxBytes}

InitTxt ==
    /\ txtBytes \in TxtInputs
    /\ txtPc = "input"
    /\ txtResult = NoTxtResult
    /\ CleanIdle /\ PdfIdle /\ DocxIdle /\ PptxIdle /\ DispIdle /\ EngIdle /\ AppIdle

DoProcessTxt ==
    /\ txtPc = "input"
    /\ txtResult' = ProcessTxt(txtBytes)
    /\ txtPc' = "done"
    /\ UNCHANGED <<txtBytes, cleanVars, pdfVars, metaVars, docxVars, pptxVars, dispVars,
                   engVars, appVars>>

NextTxt == DoProcessTxt

SpecTxt == InitTxt /\ [][NextTxt]_vars

----------------------------------------------------------------------------
(* Spec: process_file on an uploaded file of any declared type, read to any
   position before; a caller may read the file afterwards, and the file may be
   processed again *)

FileTypes == SupportedFormats \cup {"image/png", "application/msword"}

\* 'a', a space, and FF (not UTF-8)
FileAlphabet == {97, SP, 255}

FileContents == UNION {[1..n -> FileAlphabet] : n \in 0..MaxFileBytes}

\* what the parsing libraries may make of a file's bytes
NoMeta == [present |-> FALSE, fields |-> <<>>]
LibPdfs ==
    {[opens |-> FALSE, pages |-> <<>>, meta |-> NoMeta],
     [opens |-> TRUE, pages |-> <<[fault |-> "none", text |-> <<97, NL>>]>>, meta |-> NoMeta],
     [opens |-> TRUE, pages |-> <<[fault |-> "load", text |-> <<>>]>>, meta |-> NoMeta]}
LibDocxs ==
    {[opens |-> FALSE, body |-> <<>>],
     [opens |-> TRUE, body |-> <<[kind |-> "p", text |-> <<97, SP, SP>>, rows |-> <<>>]>>]}
LibPptxs ==
    {[opens |-> FALSE, slides |-> <<>>],
     [opens |-> TRUE,
      slides |-> <<[shapes |-> <<[hasText |-> TRUE, text |-> <<98>>]>>,
                    notes |-> [frame |-> FALSE, text |-> <<>>]]>>]}

LibOutcomes(type) ==
    {[pdf |-> p, docx |-> d, pptx |-> x] :
        p \in IF type = MimePdf THEN LibPdfs ELSE {[opens |-> FALSE, pages |-> <<>>, meta |-> NoMeta]},
        d \in IF type = MimeDocx THEN LibDocxs ELSE {[opens |-> FALSE, body |-> <<>>]},
        x \in IF type = MimePptx THEN LibPptxs ELSE {[opens |-> FALSE, slides |-> <<>>]}}

Init ==
    /\ \E t \in FileTypes, c \in FileContents :
          \E p \in 0..Len(c) : upFile = [type |-> t, content |-> c, pos |-> p]
    /\ dispPc = "uploaded"
    /\ dispResult = NoDispResult
    /\ dispReads = 0
    /\ dispInvoked = <<>>
    /\ dispPos0 = 0
    /\ dispReread = <<>>
    /\ CleanIdle /\ PdfIdle /\ DocxIdle /\ PptxIdle /\ TxtIdle /\ EngIdle /\ AppIdle

DoProcessFile ==
    \E lib \in LibOutcomes(upFile.type) :
        LET r == ProcessFile(upFile, lib)
        IN  /\ dispPos0' = upFile.pos
            /\ upFile' = [upFile EXCEPT !.pos = r.pos]
            /\ dispResult' = [status |-> r.status, text |-> r.text]
            /\ dispReads' = r.reads
            /\ dispInvoked' = r.invoked
            /\ dispPc' = "processed"
            /\ UNCHANGED <<dispReread, cleanVars, pdfVars, metaVars, docxVars, pptxVars,
                           txtVars, engVars, appVars>>

\* a caller reads the file after process_file: uploaded_file.read()
Reread ==
    /\ dispPc = "processed"
    /\ dispReread' = FileRead(upFile)
    /\ upFile' = [upFile EXCEPT !.pos = Len(upFile.content)]
    /\ dispPc' = "reread"
    /\ UNCHANGED <<dispResult, dispReads, dispInvoked, dispPos0, cleanVars, pdfVars,
                   metaVars, docxVars, pptxVars, txtVars, engVars, appVars>>

Next == DoProcessFile \/ Reread

Spec == Init /\ [][Next]_vars

----------------------------------------------------------------------------
(* SpecChat: every operation of GeminiChat on short queries of up to
   MaxFillers + 1 tokens, on short documents and on every outcome of the
   generation endpoint *)

\* 'hi'
Filler == <<104, 105>>

\* the last token of a query: none, 'pdf', 'THIS', 'profile' (a keyword inside
\* a word), 'doc' (no keyword)
LastTokens ==
    {<<>>, <<112, 100, 102>>, <<84, 72, 73, 83>>, <<112, 114, 111, 102, 105, 108, 101>>,
     <<100, 111, 99>>}

\* what separates the tokens of a query: ' ' or '\n  '
TokenSeps == {<<SP>>, <<NL, SP, SP>>}

MakeQuery(n, last, sep) ==
    Join([k \in 1..n |-> Filler] \o (IF last = <<>> THEN <<>> ELSE <<last>>), sep)

ChatQueries ==
    {MakeQuery(n, last, sep) : n \in 0..MaxFillers, last \in LastTokens, sep \in TokenSeps}

\* '', ' \n', 'A b.\n\nhi c'
ChatDocuments == {<<>>, <<SP, NL>>, <<65, SP, 98, 46, NL, NL, 104, 105, SP, 99>>}

\* the endpoint answers 'ok', raises Exception('boom'), or answers a response
\* whose .text raises ValueError('blocked')
Outcomes ==
    {[kind |-> "text", text |-> <<111, 107>>],
     [kind |-> "raises", text |-> <<98, 111, 111, 109>>],
     [kind |-> "notext", text |-> <<98, 108, 111, 99, 107, 101, 100>>]}

InitChat ==
    /\ engQuery \in ChatQueries
    /\ engDoc \in ChatDocuments
    /\ engOutcome \in Outcomes
    /\ engPc = "input"
    /\ engOp = "none"
    /\ engSent = <<>>
    /\ engResult = NoEngResult
    /\ CleanIdle /\ PdfIdle /\ DocxIdle /\ PptxIdle /\ TxtIdle /\ DispIdle /\ AppIdle

\* the operation op ran on the inputs and returned r
Ran(op, r) ==
    /\ engPc = "input"
    /\ engPc' = "done"
    /\ engOp' = op
    /\ engSent' = r.sent
    /\ engResult' = r
    /\ UNCHANGED <<engQuery, engDoc, engOutcome, cleanVars, pdfVars, metaVars, docxVars,
                   pptxVars, txtVars, dispVars, appVars>>

DoGeneralChat == Ran("general_chat", GeneralChat(engQuery, engOutcome))

DoChatWithDocuments ==
    Ran("chat_with_documents", ChatWithDocuments(engQuery, engDoc, engOutcome))

DoIntelligentChat ==
    Ran("intelligent_chat", IntelligentChat(engQuery, engDoc, engOutcome))

DoSummarizeDocument ==
    \E summary_type \in SummaryTypes \cup {"other"} :
        Ran("summarize_document", SummarizeDocument(engDoc, summary_type, engOutcome))

DoExtractKeyInformation ==
    \E info_type \in ExtractionTypes \cup {"general"} :
        Ran("extract_key_information",
            ExtractKeyInformation(engDoc, info_type, engOutcome))

DoAnswerQuestion == Ran("answer_question", AnswerQuestion(engQuery, engDoc, engOutcome))

DoSearchInDocuments ==
    Ran("search_in_documents", SearchInDocuments(engQuery, engDoc, engOutcome))

NextChat ==
    \/ DoGeneralChat
    \/ DoChatWithDocuments
    \/ DoIntelligentChat
    \/ DoSummarizeDocument
    \/ DoExtractKeyInformation
    \/ DoAnswerQuestion
    \/ DoSearchInDocuments

SpecChat == InitChat /\ [][NextChat]_vars

----------------------------------------------------------------------------
(* SpecSentiment: analyze_sentiment on every response text made of up to
   MaxRespTokens pieces *)

\* 'SCORE:', ' ', '-', '.', '0', '1', '5', 'x'
RespTokens == {ScoreTag, <<SP>>, <<45>>, <<46>>, <<48>>, <<49>>, <<53>>, <<120>>}

RECURSIVE Flatten(_)
Flatten(pieces) == IF pieces = <<>> THEN <<>> ELSE Head(pieces) \o Flatten(Tail(pieces))

ResponseTexts == {Flatten(pieces) : pieces \in UNION {[1..n -> RespTokens] : n \in 0..MaxRespTokens}}

\* 'fine'
SentimentTexts == {<<102, 105, 110, 101>>}

InitSentiment ==
    /\ engQuery = <<>>
    /\ engDoc \in SentimentTexts
    /\ engOutcome \in {[kind |-> "text", text |-> t] : t \in ResponseTexts}
                      \cup {o \in Outcomes : o.kind # "text"}
    /\ engPc = "input"
    /\ engOp = "none"
    /\ engSent = <<>>
    /\ engResult = NoEngResult
    /\ CleanIdle /\ PdfIdle /\ DocxIdle /\ PptxIdle /\ TxtIdle /\ DispIdle /\ AppIdle

DoAnalyzeSentiment == Ran("analyze_sentiment", AnalyzeSentiment(engDoc, engOutcome))

NextSentiment == DoAnalyzeSentiment

SpecSentiment == InitSentiment /\ [][NextSentiment]_vars

----------------------------------------------------------------------------
(* SpecSearch: search_in_documents on every document of up to MaxParagraphs
   paragraphs separated by blank lines *)

\* 'Ab c', 'x', ''
SearchParagraphs == {<<65, 98, SP, 99>>, <<120>>, <<>>}

SearchDocuments ==
    {Join(paragraphs, <<NL, NL>>) :
        paragraphs \in UNION {[1..n -> SearchParagraphs] : n \in 1..MaxParagraphs}}

\* '', 'AB', 'x zz', 'q'
SearchQueries == {<<>>, <<65, 66>>, <<120, SP, 122, 122>>, <<113>>}

InitSearch ==
    /\ engQuery \in SearchQueries
    /\ engDoc \in SearchDocuments
    /\ engOutcome \in Outcomes
    /\ engPc = "input"
    /\ engOp = "none"
    /\ engSent = <<>>
    /\ engResult = NoEngResult
    /\ CleanIdle /\ PdfIdle /\ DocxIdle /\ PptxIdle /\ TxtIdle /\ DispIdle /\ AppIdle

NextSearch == DoSearchInDocuments

SpecSearch == InitSearch /\ [][NextSearch]_vars

----------------------------------------------------------------------------
(* SpecBudget: the operations that embed document text in a prompt, on
   documents whose length is within MaxOver of max_content_length, longer
   than every limit of the code *)

BudgetLengths == {0} \cup {MaxContentLength + d : d \in (0 - MaxOver)..MaxOver}

\* a text of n letters a, b, c; with a blank line in its middle when split
BudgetText(n, split) ==
    [k \in 1..n |->
        IF split /\ n >= 4 /\ k \in {n \div 2, (n \div 2) + 1} THEN NL ELSE 97 + (k % 3)]

BudgetDocuments == {BudgetText(n, split) : n \in BudgetLengths, split \in BOOLEAN}

\* 'b', and a query of one token longer than max_content_length
BudgetQueries == {<<98>>, [k \in 1..(MaxContentLength + 1) |-> 113]}

InitBudget ==
    /\ engQuery \in BudgetQueries
    /\ engDoc \in BudgetDocuments
    /\ engOutcome \in {o \in Outcomes : o.kind = "text"}
    /\ engPc = "input"
    /\ engOp = "none"
    /\ engSent = <<>>
    /\ engResult = NoEngResult
    /\ CleanIdle /\ PdfIdle /\ DocxIdle /\ PptxIdle /\ TxtIdle /\ DispIdle /\ AppIdle

NextBudget ==
    \/ DoChatWithDocuments
    \/ DoSummarizeDocument
    \/ DoExtractKeyInformation
    \/ DoAnswerQuestion
    \/ DoAnalyzeSentiment
    \/ DoSearchInDocuments

SpecBudget == InitBudget /\ [][NextBudget]_vars

----------------------------------------------------------------------------
(* SpecBatch: up to MaxBatches clicks of Process Documents, each on up to
   MaxBatch uploaded files, some under the same name, some failing *)

NoLib ==
    [pdf |-> [opens |-> FALSE, pages |-> <<>>, meta |-> NoMeta],
     docx |-> [opens |-> FALSE, body |-> <<>>],
     pptx |-> [opens |-> FALSE, slides |-> <<>>]]

Upload(name, type, content, lib) ==
    [name |-> name, size |-> Len(content),
     upload |-> [type |-> type, content |-> content, pos |-> 0], lib |-> lib]

\* a.txt holding 'a'; a.txt holding 'bb'; a.txt declared as an image; b.pdf with
\* one page; b.pdf whose page does not load
Uploads ==
    {Upload("a.txt", MimeTxt, <<97>>, NoLib),
     Upload("a.txt", MimeTxt, <<98, 98>>, NoLib),
     Upload("a.txt", "image/png", <<97>>, NoLib),
     Upload("b.pdf", MimePdf, <<37>>,
            [NoLib EXCEPT !.pdf = [opens |-> TRUE,
                                   pages |-> <<[fault |-> "none", text |-> <<99>>]>>,
                                   meta |-> NoMeta]]),
     Upload("b.pdf", MimePdf, <<37, 37>>,
            [NoLib EXCEPT !.pdf = [opens |-> TRUE,
                                   pages |-> <<[fault |-> "load", text |-> <<>>]>>,
                                   meta |-> NoMeta]])}

Batches == UNION {[1..n -> Uploads] : n \in 1..MaxBatch}

InitBatch ==
    /\ messages = <<>>
    /\ documents = <<>>
    /\ processed_content = <<>>
    /\ uploaded_files = <<>>
    /\ attempts = <<>>
    /\ clock = 0
    /\ CleanIdle /\ PdfIdle /\ DocxIdle /\ PptxIdle /\ TxtIdle /\ DispIdle /\ EngIdle

\* a click of Process Documents, the clock's reading being the time of the click
ProcessDocuments ==
    /\ clock < MaxBatches
    /\ \E files \in Batches :
          \E after \in {ProcessDocumentsHandler(documents, files, clock + 1)} :
              /\ uploaded_files' = files
              /\ attempts' = after.attempts
              /\ documents' = after.documents
              /\ processed_content' = after.processed_content
    /\ clock' = clock + 1
    /\ UNCHANGED <<messages, cleanVars, pdfVars, metaVars, docxVars, pptxVars, txtVars,
                   dispVars, engVars>>

NextBatch == ProcessDocuments

SpecBatch == InitBatch /\ [][NextBatch]_vars

----------------------------------------------------------------------------
(* SpecApp: the interactions with the conversation: chat input, a click on a
   suggestion, the quick actions and Clear, up to MaxMessages messages, in a
   fresh session or after one click of Process Documents.  Every interaction
   runs its handler to the end; the call it made of the engine is kept in the
   engine's variables. *)

\* one file that is processed, one that fails
AppBatches ==
    {<<Upload("a.txt", MimeTxt, <<65, SP, 112, 100, 102>>, NoLib)>>,
     <<Upload("a.txt", "image/png", <<97>>, NoLib)>>}

\* 'hi', 'this pdf'
AppPrompts == {<<104, 105>>, <<116, 104, 105, 115, SP, 112, 100, 102>>}

\* str(e) of the exception by which st.rerun() ends a run
RerunText == <<114, 101, 114, 117, 110>>

InitApp ==
    /\ messages = <<>>
    /\ \/ /\ documents = <<>>
          /\ processed_content = <<>>
          /\ uploaded_files = <<>>
          /\ attempts = <<>>
          /\ clock = 0
       \/ \E files \in AppBatches :
             LET after == ProcessDocumentsHandler(<<>>, files, 1)
             IN  /\ documents = after.documents
                 /\ processed_content = after.processed_content
                 /\ uploaded_files = files
                 /\ attempts = after.attempts
                 /\ clock = 1
    /\ CleanIdle /\ PdfIdle /\ DocxIdle /\ PptxIdle /\ TxtIdle /\ DispIdle /\ EngIdle

\* an interaction called the operation op of the engine, which returned r
Called(op, query, document, outcome, r) ==
    /\ engQuery' = query
    /\ engDoc' = document
    /\ engOutcome' = outcome
    /\ engPc' = "done"
    /\ engOp' = op
    /\ engSent' = r.sent
    /\ engResult' = r

AppFrame ==
    UNCHANGED <<documents, processed_content, uploaded_files, attempts, clock, cleanVars,
                pdfVars, metaVars, docxVars, pptxVars, txtVars, dispVars>>

\* the chat input handler
ChatInput ==
    /\ Len(messages) + 2 <= MaxMessages
    /\ \E prompt \in AppPrompts, outcome \in Outcomes :
          LET exchange == ChatExchange(prompt, processed_content, outcome)
          IN  /\ messages' = messages \o exchange.appended
              /\ Called("intelligent_chat", prompt, processed_content, outcome,
                        exchange.call)
    /\ AppFrame

\* a click on a suggestion and, in the same run, the auto message handler; its
\* st.rerun() stands inside the try: the exception that ends the run either
\* passes the except Exception clause or, where the library derives it from
\* Exception, is caught by it
SuggestionClick ==
    /\ messages = <<>>
    /\ \E i \in 1..Len(Suggestions), outcome \in Outcomes, caught \in BOOLEAN :
          LET prompt == SuggestionPrompt(Suggestions[i])
              exchange == ChatExchange(prompt, processed_content, outcome)
              rerun == exchange.call.status = "returned"
          IN  /\ Len(exchange.appended) + (IF rerun /\ caught THEN 1 ELSE 0) <= MaxMessages
              /\ messages' =
                     exchange.appended
                     \o (IF rerun /\ caught
                         THEN <<Message("assistant", SorryError \o RerunText)>>
                         ELSE <<>>)
              /\ Called("intelligent_chat", prompt, processed_content, outcome,
                        exchange.call)
    /\ AppFrame

\* the Sentiment button: shows the category, appends nothing
QuickSentiment ==
    /\ messages # <<>>
    /\ processed_content # <<>>
    /\ \E outcome \in Outcomes :
          LET text == FirstN(processed_content, SentimentPreview)
          IN  Called("analyze_sentiment", <<>>, text, outcome,
                     AnalyzeSentiment(text, outcome))
    /\ UNCHANGED messages
    /\ AppFrame

\* the Summarize button
QuickSummarize ==
    /\ messages # <<>>
    /\ processed_content # <<>>
    /\ Len(messages) + 1 <= MaxMessages
    /\ \E outcome \in Outcomes :
          LET summary == SummarizeDocument(processed_content, "general", outcome)
          IN  /\ messages' = Append(messages,
                                    Message("assistant", SummaryLabel \o summary.text))
              /\ Called("summarize_document", <<>>, processed_content, outcome, summary)
    /\ AppFrame

\* the Keywords button
QuickKeywords ==
    /\ messages # <<>>
    /\ processed_content # <<>>
    /\ Len(messages) + 1 <= MaxMessages
    /\ \E outcome \in Outcomes :
          LET keywords == ExtractKeyInformation(processed_content, "keywords", outcome)
          IN  /\ messages' = Append(messages,
                                    Message("assistant", KeywordsLabel \o keywords.text))
              /\ Called("extract_key_information", <<>>, processed_content, outcome,
                        keywords)
    /\ AppFrame

\* the Clear button
Clear ==
    /\ messages # <<>>
    /\ messages' = <<>>
    /\ UNCHANGED engVars
    /\ AppFrame

NextApp ==
    \/ ChatInput
    \/ SuggestionClick
    \/ QuickSentiment
    \/ QuickSummarize
    \/ QuickKeywords
    \/ Clear

SpecApp == InitApp /\ [][NextApp]_vars

----------------------------------------------------------------------------
(* The claims *)

\* C1: for a file whose declared type is none of the four supported types,
\* process_file fails with the unsupported-type error, having invoked no extractor,
\* made no read() and left the read position where it was.
C1_UnsupportedFailsFast ==
    (dispPc = "processed" /\ upFile.type \notin {MimePdf, MimeDocx, MimePptx, MimeTxt}) =>
        /\ dispResult.status = "unsupported"
        /\ dispInvoked = <<>>
        /\ dispReads = 0
        /\ upFile.pos = dispPos0

\* C1's case: an unsupported file, read part-way before, was given to process_file
C1_Witness ==
    /\ dispPc = "processed"
    /\ upFile.type = "image/png"
    /\ dispPos0 > 0
    /\ dispPos0 < Len(upFile.content)
    /\ dispResult.status = "unsupported"

\* C2: for a file of a supported type, when process_file has finished, with a text
\* or with an extractor's error, the read position is back at the start, and a
\* caller that reads the file then gets all its bytes.
C2_PositionRestored ==
    /\ (dispPc = "processed" /\ upFile.type \in {MimePdf, MimeDocx, MimePptx, MimeTxt}) =>
          /\ dispResult.status \in {"ok", "error"}
          /\ upFile.pos = 0
    /\ (dispPc = "reread" /\ upFile.type \in {MimePdf, MimeDocx, MimePptx, MimeTxt}) =>
          dispReread = upFile.content

\* C2's case: the extractor raised on a file that had been read to its end before,
\* and the caller read the file again
C2_Witness ==
    /\ dispPc = "reread"
    /\ upFile.type = MimePdf
    /\ dispResult.status = "error"
    /\ dispPos0 = Len(upFile.content)
    /\ Len(upFile.content) > 0
    /\ dispReread = upFile.content

\* C3 (as claimed): the Text Cleaner is idempotent: cleaning a cleaned text,
\* control characters included, changes nothing.
C3_CleanIdempotent == cleanPc = "recleaned" => cleanTwice = cleanOut

NonSpaceIdx(t) == {i \in 1..Len(t) : ~IsSpace(t[i])}
NewlinesBetween(t, i, j) == Cardinality({k \in (i + 1)..(j - 1) : t[k] = NL})
Survives(c) == ~IsSpace(c) /\ ~IsControl(c)

\* C4 (as claimed): where the input has three or more newlines (with only
\* whitespace among them) between two non-whitespace characters, the cleaned
\* output has exactly two newlines, one blank line, at that position (between the
\* characters kept on either side of it); and no run of two or more spaces is left.
C4_RunsCollapsed ==
    cleanPc # "input" =>
        /\ \A i, j \in NonSpaceIdx(cleanIn) :
              ( /\ i < j
                /\ \A k \in (i + 1)..(j - 1) : IsSpace(cleanIn[k])
                /\ NewlinesBetween(cleanIn, i, j) >= 3 ) =>
                  LET before == Cardinality({k \in 1..i : Survives(cleanIn[k])})
                      outIdx == NonSpaceIdx(cleanOut)
                  IN  (before >= 1 /\ Cardinality(outIdx) > before) =>
                          NewlinesBetween(cleanOut, Nth(outIdx, before),
                                          Nth(outIdx, before + 1)) = 2
        /\ \A k \in 1..(Len(cleanOut) - 1) : ~(cleanOut[k] = SP /\ cleanOut[k + 1] = SP)

\* C5 (as claimed): every PDF document opened by _process_pdf or by
\* extract_metadata is closed when the operation has finished, whether it
\* succeeded or failed part-way.
C5_HandlesClosed ==
    /\ pdfPc = "done" => pdfHandle # "open"
    /\ metaPc = "done" => metaHandle # "open"

\* the pages of a document whose trimmed text is not empty
PdfKept(doc) == {i \in 1..Len(doc.pages) : Strip(doc.pages[i].text) # <<>>}

\* the page number a block's header carries
HeaderNumber(block, doc) ==
    CHOOSE n \in 0..(Len(doc.pages) + 1) : IsPrefix(PageHeader(n) \o <<NL>>, block)

\* C6: the PDF extractor emits one block per page with non-empty trimmed text and
\* none for the others; each block is the header with the page's 1-based position
\* in the document, a newline and the page's text; the header numbers increase
\* strictly; the blocks are joined with a blank line.
C6_PdfBlocks ==
    (pdfPc = "done" /\ pdfResult.status = "ok") =>
        LET kept == PdfKept(pdfDoc)
            blocks == pdfResult.blocks
        IN  /\ Len(blocks) = Cardinality(kept)
            /\ \A k \in 1..Len(blocks) :
                  /\ HeaderNumber(blocks[k], pdfDoc) = Nth(kept, k)
                  /\ blocks[k] = PageHeader(Nth(kept, k)) \o <<NL>>
                                    \o pdfDoc.pages[Nth(kept, k)].text
            /\ \A k \in 1..(Len(blocks) - 1) :
                  HeaderNumber(blocks[k], pdfDoc) < HeaderNumber(blocks[k + 1], pdfDoc)
            /\ pdfResult.text = Join(blocks, <<NL, NL>>)

\* C6's case: a page with empty trimmed text is skipped before a page that is kept
C6_Witness ==
    /\ pdfPc = "done"
    /\ pdfResult.status = "ok"
    /\ \E i, j \in 1..Len(pdfDoc.pages) :
          i < j /\ i \notin PdfKept(pdfDoc) /\ j \in PdfKept(pdfDoc)

\* the elements of the body that are paragraphs with non-blank text, and those
\* that are tables with a non-blank cell
KeptParagraphs(doc) ==
    {i \in 1..Len(doc.body) : doc.body[i].kind = "p" /\ Strip(doc.body[i].text) # <<>>}
NonBlankCells(row) == {c \in 1..Len(row) : Strip(row[c]) # <<>>}
NonBlankRows(rows) == {r \in 1..Len(rows) : NonBlankCells(rows[r]) # {}}
KeptTables(doc) ==
    {i \in 1..Len(doc.body) : doc.body[i].kind = "t" /\ NonBlankRows(doc.body[i].rows) # {}}

\* a row's line: its non-blank cells, trimmed, joined with " | "
RowLine(row) ==
    Join([k \in 1..Cardinality(NonBlankCells(row)) |->
             Strip(row[Nth(NonBlankCells(row), k)])], CellSep)

\* a table's block: the header and the lines of its rows that have a non-blank cell
TableBlock(rows) ==
    TableHeader \o Join([k \in 1..Cardinality(NonBlankRows(rows)) |->
                            RowLine(rows[Nth(NonBlankRows(rows), k)])], <<NL>>)

\* C7: the DOCX extractor's output is the texts of all paragraphs that are not
\* blank, in document order, followed by the blocks of all tables, in document
\* order, never interleaved; a table with a non-blank cell yields exactly one
\* "--- Table ---" block whose rows are its non-blank cell texts (trimmed) joined
\* with " | ", rows without a non-blank cell left out; a table without a non-blank
\* cell yields no block.  ("Non-empty" is read as the code decides it: not empty
\* after trimming.)
C7_DocxParagraphsThenTables ==
    (docxPc = "done" /\ docxDoc.opens) =>
        LET P == KeptParagraphs(docxDoc)
            T == KeptTables(docxDoc)
            blocks == docxResult.blocks
        IN  /\ docxResult.status = "ok"
            /\ Len(blocks) = Cardinality(P) + Cardinality(T)
            /\ \A k \in 1..Cardinality(P) : blocks[k] = docxDoc.body[Nth(P, k)].text
            /\ \A k \in 1..Cardinality(T) :
                  blocks[Cardinality(P) + k] = TableBlock(docxDoc.body[Nth(T, k)].rows)
            /\ docxResult.text = Join(blocks, <<NL, NL>>)

\* C7's case: a table with a blank row and a non-blank cell stands before a
\* non-blank paragraph in the document
C7_Witness ==
    /\ docxPc = "done"
    /\ docxResult.status = "ok"
    /\ \E i \in KeptTables(docxDoc), j \in KeptParagraphs(docxDoc) :
          /\ i < j
          /\ NonBlankRows(docxDoc.body[i].rows) # DOMAIN docxDoc.body[i].rows

\* the slides that have a shape with non-blank text, and those with non-blank notes
HasShapeText(slide) ==
    \E k \in 1..Len(slide.shapes) :
        slide.shapes[k].hasText /\ Strip(slide.shapes[k].text) # <<>>
HasNotes(slide) == slide.notes.frame /\ Strip(slide.notes.text) # <<>>
EmittedSlides(prs) ==
    {i \in 1..Len(prs.slides) : HasShapeText(prs.slides[i]) \/ HasNotes(prs.slides[i])}

\* C8: the PPTX extractor emits a block for a slide if and only if the slide has a
\* shape with non-empty trimmed text or speaker notes with non-empty trimmed text;
\* every block starts with "--- Slide N ---", N the slide's 1-based position in
\* the presentation (skipped slides do not renumber later ones); a slide with notes
\* only yields exactly that header and one "Notes:" line.
C8_PptxBlocks ==
    (pptxPc = "done" /\ pptxDoc.opens) =>
        LET E == EmittedSlides(pptxDoc)
            blocks == pptxResult.blocks
        IN  /\ pptxResult.status = "ok"
            /\ Len(blocks) = Cardinality(E)
            /\ \A k \in 1..Len(blocks) :
                  LET i == Nth(E, k)
                      slide == pptxDoc.slides[i]
                  IN  /\ IsPrefix(SlideHeader(i), blocks[k])
                      /\ Len(blocks[k]) > Len(SlideHeader(i))
                      /\ blocks[k][Len(SlideHeader(i)) + 1] = NL
                      /\ ~HasShapeText(slide) =>
                            blocks[k] = SlideHeader(i) \o <<NL>> \o NotesPrefix
                                           \o Strip(slide.notes.text)

\* C8's case: a slide without text and notes is skipped before a slide with notes only
C8_Witness ==
    /\ pptxPc = "done"
    /\ pptxResult.status = "ok"
    /\ \E i, j \in 1..Len(pptxDoc.slides) :
          /\ i < j
          /\ i \notin EmittedSlides(pptxDoc)
          /\ HasNotes(pptxDoc.slides[j])
          /\ ~HasShapeText(pptxDoc.slides[j])

\* the length of the well-formed UTF-8 byte sequence at bytes[i] (the Unicode
\* standard's table of well-formed byte sequences), 0 when there is none
WellFormedLen(bytes, i) ==
    LET n == Len(bytes)
        b(k) == bytes[i + k]
        cont(k) == b(k) \in 128..191
    IN  IF b(0) \in 0..127 THEN 1
        ELSE IF b(0) \in 194..223 /\ i + 1 <= n /\ cont(1) THEN 2
        ELSE IF b(0) = 224 /\ i + 2 <= n /\ b(1) \in 160..191 /\ cont(2) THEN 3
        ELSE IF b(0) \in (225..236) \cup {238, 239} /\ i + 2 <= n /\ cont(1) /\ cont(2) THEN 3
        ELSE IF b(0) = 237 /\ i + 2 <= n /\ b(1) \in 128..159 /\ cont(2) THEN 3
        ELSE IF b(0) = 240 /\ i + 3 <= n /\ b(1) \in 144..191 /\ cont(2) /\ cont(3) THEN 4
        ELSE IF b(0) \in 241..243 /\ i + 3 <= n /\ cont(1) /\ cont(2) /\ cont(3) THEN 4
        ELSE IF b(0) = 244 /\ i + 3 <= n /\ b(1) \in 128..143 /\ cont(2) /\ cont(3) THEN 4
        ELSE 0

RECURSIVE WellFormedFrom(_, _)
WellFormedFrom(bytes, i) ==
    IF i > Len(bytes) THEN TRUE
    ELSE WellFormedLen(bytes, i) # 0 /\ WellFormedFrom(bytes, i + WellFormedLen(bytes, i))

WellFormedUtf8(bytes) == WellFormedFrom(bytes, 1)

\* the UTF-8 encoding of one code point, and of a text
Utf8EncodeChar(cp) ==
    IF cp < 128 THEN <<cp>>
    ELSE IF cp < 2048 THEN <<192 + (cp \div 64), 128 + (cp % 64)>>
    ELSE IF cp < 65536
    THEN <<224 + (cp \div 4096), 128 + ((cp \div 64) % 64), 128 + (cp % 64)>>
    ELSE <<240 + (cp \div 262144), 128 + ((cp \div 4096) % 64),
           128 + ((cp \div 64) % 64), 128 + (cp % 64)>>

RECURSIVE Utf8Encode(_)
Utf8Encode(text) ==
    IF text = <<>> THEN <<>> ELSE Utf8EncodeChar(Head(text)) \o Utf8Encode(Tail(text))

IsScalar(cp) == cp \in 0..1114111 /\ cp \notin 55296..57343

\* C9: for every byte sequence the plain-text extractor returns the UTF-8 decoding
\* when the bytes are well-formed UTF-8 (the text of Unicode scalar values whose
\* encoding is the bytes) and otherwise the Latin-1 decoding (one code point per
\* byte, of the byte's value), with nothing added; the decoding error is never
\* reached, as Latin-1 decodes every byte sequence.
C9_TxtDecoding ==
    txtPc = "done" =>
        /\ txtResult.status = "ok"
        /\ IF WellFormedUtf8(txtBytes)
           THEN /\ \A k \in 1..Len(txtResult.text) : IsScalar(txtResult.text[k])
                /\ Utf8Encode(txtResult.text) = txtBytes
           ELSE /\ Len(txtResult.text) = Len(txtBytes)
                /\ \A k \in 1..Len(txtBytes) : txtResult.text[k] = txtBytes[k]

\* C9's case: bytes that are not UTF-8 were decoded as Latin-1
C9_Witness ==
    /\ txtPc = "done"
    /\ ~WellFormedUtf8(txtBytes)
    /\ txtResult.status = "ok"
    /\ txtResult.codec = "latin-1"
    /\ Len(txtResult.text) > 1

\* C10: extract_metadata always returns a record with filename, file_type and
\* file_size, also when opening the PDF or reading its metadata failed; title,
\* author, subject and page_count are all four there or all four absent, and are
\* there only when the declared type is PDF.
C10_MetadataRecord ==
    metaPc = "done" =>
        /\ metaResult.status = "ok"
        /\ BaseFields \subseteq DOMAIN metaResult.value
        /\ metaResult.value.filename = metaFile.name
        /\ metaResult.value.file_type = metaFile.type
        /\ metaResult.value.file_size = metaFile.size
        /\ DOMAIN metaResult.value \cap PdfFields \in {{}, PdfFields}
        /\ DOMAIN metaResult.value \cap PdfFields # {} => metaFile.type = MimePdf

\* C10's case: a PDF whose metadata cannot be read
C10_Witness ==
    /\ metaPc = "done"
    /\ metaFile.type = MimePdf
    /\ pdfDoc.opens
    /\ ~pdfDoc.meta.present
    /\ DOMAIN metaResult.value = BaseFields

\* the tokens of a query, counted by where they end
QueryTokenCount(q) ==
    Cardinality({i \in 1..Len(q) : ~IsSpace(q[i]) /\ (i = Len(q) \/ IsSpace(q[i + 1]))})

\* the query, letter case aside, has a keyword at position i
KeywordAt(q, i) ==
    \E kw \in DocKeywords :
        /\ i + Len(kw) - 1 <= Len(q)
        /\ \A k \in 1..Len(kw) : LowerChar(q[i + k - 1]) = kw[k]

NamesDocument(q) == \E i \in 1..Len(q) : KeywordAt(q, i)

NonBlank(doc) == \E i \in 1..Len(doc) : ~IsSpace(doc[i])

IsSuffix(p, s) ==
    Len(p) <= Len(s) /\ \A k \in 1..Len(p) : s[Len(s) - Len(p) + k] = p[k]

DocumentScoped ==
    NonBlank(engDoc) /\ (NamesDocument(engQuery) \/ QueryTokenCount(engQuery) > 10)

IntelligentChatDone == engPc = "done" /\ engOp = "intelligent_chat"

\* C11: intelligent_chat sends the document prompt exactly when the document
\* text is non-blank and the query, lowercased, contains a keyword or has more
\* than 10 whitespace-separated tokens; otherwise it sends the general prompt;
\* its answer ends with the notice exactly when it answered generally while a
\* non-blank document text was present.
C11_IntelligentChatRouting ==
    IntelligentChatDone =>
        /\ Len(engSent) = 1
        /\ engSent[1].query = engQuery
        /\ engSent[1].template = IF DocumentScoped THEN "document_chat" ELSE "general_chat"
        /\ engSent[1].document = IF DocumentScoped THEN engDoc ELSE <<>>
        /\ IsSuffix(Notice, engResult.text) <=> (~DocumentScoped /\ NonBlank(engDoc))

\* a query of 11 tokens without any keyword went to the document prompt
C11_Witness ==
    /\ IntelligentChatDone
    /\ NonBlank(engDoc)
    /\ ~NamesDocument(engQuery)
    /\ QueryTokenCount(engQuery) = 11
    /\ engSent[1].template = "document_chat"

DocumentChatDone == engPc = "done" /\ engOp = "chat_with_documents"

\* C12: _create_document_prompt embeds a document text of at most 15,000
\* characters whole, without a marker; of a longer one it embeds exactly the
\* first 15,000 characters followed by the truncation marker; the user's query
\* is embedded whole whatever its length.
C12_DocumentTruncation ==
    DocumentChatDone =>
        LET embedded == engSent[1].document
        IN  /\ Len(engSent) = 1
            /\ engSent[1].query = engQuery
            /\ Len(engDoc) <= 15000 => embedded = engDoc
            /\ Len(engDoc) > 15000 =>
                   /\ Len(embedded) = 15000 + Len(TruncationMarker)
                   /\ \A k \in 1..15000 : embedded[k] = engDoc[k]
                   /\ \A k \in 1..Len(TruncationMarker) :
                          embedded[15000 + k] = TruncationMarker[k]

\* a document of 15,001 characters was cut, with a query longer than the limit
C12_Witness ==
    /\ DocumentChatDone
    /\ Len(engDoc) = 15001
    /\ Len(engQuery) > 15000
    /\ Len(engSent[1].document) = 15000 + Len(TruncationMarker)

TextOperations ==
    {"general_chat", "chat_with_documents", "intelligent_chat", "summarize_document",
     "extract_key_information", "answer_question", "search_in_documents"}

EndpointFailed == engOutcome.kind \in {"raises", "notext"}

\* C13: general chat, chat with documents, intelligent chat, summarize, extract
\* key information, answer question and search never raise; each calls the
\* endpoint once, or not at all when search finds no paragraph and answers its
\* fixed message; when the endpoint fails the text returned embeds the failure
\* message and the endpoint was still called only that once.
C13_FailureReturnedAsText ==
    (engPc = "done" /\ engOp \in TextOperations) =>
        /\ engResult.status = "returned"
        /\ Len(engSent) <= 1
        /\ Len(engSent) = 0 =>
               /\ engOp = "search_in_documents"
               /\ engResult.text = NoRelevantHead \o engQuery \o NoRelevantTail
        /\ (EndpointFailed /\ Len(engSent) = 1) =>
               Contains(engResult.text, engOutcome.text)

\* the endpoint raised under summarize_document, which returned the error text
C13_Witness ==
    /\ engPc = "done"
    /\ engOp = "summarize_document"
    /\ engOutcome.kind = "raises"
    /\ Len(engSent) = 1
    /\ engResult.text = VarshaError \o engOutcome.text

SentimentDone ==
    engPc = "done" /\ engOp = "analyze_sentiment" /\ engOutcome.kind = "text"

\* the positions where the text reads SCORE:
ScoreTags(t) == {i \in 1..(Len(t) - 5) : Slice(t, i, i + 5) = <<83, 67, 79, 82, 69, 58>>}

\* the first position after the tag at i that holds no whitespace
AfterTag(t, i) ==
    CHOOSE a \in (i + 6)..(Len(t) + 1) :
        /\ \A k \in (i + 6)..(a - 1) : IsSpace(t[k])
        /\ a = Len(t) + 1 \/ ~IsSpace(t[a])

\* t[a..b] reads as a number: an optional sign, then digits with at most one
\* point among them, the last character a digit
IsNumberText(t, a, b) ==
    LET s == IF t[a] \in {43, 45} THEN a + 1 ELSE a
    IN  /\ s <= b
        /\ IsDigit(t[b])
        /\ \A k \in s..b : IsDigit(t[k]) \/ t[k] = 46
        /\ Cardinality({k \in s..b : t[k] = 46}) <= 1

NumberEnds(t, a) == {b \in a..Len(t) : IsNumberText(t, a, b)}

RECURSIVE PlaceValues(_, _, _, _)
\* the digits of t[from..to] by their place about the point, in units of 1 / ScoreScale
PlaceValues(t, from, to, point) ==
    IF from > to THEN 0
    ELSE (IF IsDigit(t[from])
          THEN (t[from] - 48) * Pow10(MaxRespTokens + point - from
                                      - (IF from < point THEN 1 ELSE 0))
          ELSE 0)
         + PlaceValues(t, from + 1, to, point)

\* the longest number text that begins at a, as a number
NumberValue(t, a) ==
    LET b == Max(NumberEnds(t, a))
        points == {k \in a..b : t[k] = 46}
        magnitude == PlaceValues(t, a, b, IF points = {} THEN b + 1 ELSE Min(points))
    IN  IF t[a] = 45 THEN 0 - magnitude ELSE magnitude

Clipped(v) == Max({0 - ScoreScale, Min({ScoreScale, v})})

\* the tags that a number follows, whitespace aside
NumberedTags(t) == {i \in ScoreTags(t) : NumberEnds(t, AfterTag(t, i)) # {}}

ScoreInRangeWithCategory ==
    /\ engResult.text = engOutcome.text
    /\ engResult.score >= 0 - ScoreScale
    /\ engResult.score <= ScoreScale
    /\ engResult.category = "positive" <=> 10 * engResult.score > ScoreScale
    /\ engResult.category = "negative" <=> 10 * engResult.score < 0 - ScoreScale
    /\ engResult.category \in {"positive", "negative", "neutral"}

\* C14 as stated: detailed_analysis is the response text, the score is the
\* number after the first SCORE: of the response, clamped to [-1, 1], and 0.0
\* when there is no SCORE: or no number after the first one; the category is
\* positive exactly above 0.1 and negative exactly below -0.1.
C14_ScoreAfterFirstTag ==
    SentimentDone =>
        LET t == engOutcome.text
        IN  /\ ScoreInRangeWithCategory
            /\ engResult.score =
                   IF ScoreTags(t) = {} THEN 0
                   ELSE IF NumberEnds(t, AfterTag(t, Min(ScoreTags(t)))) = {} THEN 0
                   ELSE Clipped(NumberValue(t, AfterTag(t, Min(ScoreTags(t)))))

\* C14, amended: detailed_analysis is the response text, the score is the
\* number after the first SCORE: that a number follows, clamped to [-1, 1],
\* and 0.0 when no SCORE: is followed by a number; the category is positive
\* exactly above 0.1 and negative exactly below -0.1.
C14_ScoreAfterFirstNumberedTag ==
    SentimentDone =>
        LET t == engOutcome.text
        IN  /\ ScoreInRangeWithCategory
            /\ engResult.score =
                   IF NumberedTags(t) = {} THEN 0
                   ELSE Clipped(NumberValue(t, AfterTag(t, Min(NumberedTags(t)))))

\* the first SCORE: has no number, a later one has: the later one is scored
C14_Witness ==
    /\ SentimentDone
    /\ NumberedTags(engOutcome.text) # {}
    /\ Min(ScoreTags(engOutcome.text)) < Min(NumberedTags(engOutcome.text))
    /\ engResult.score = ScoreScale
    /\ engResult.category = "positive"

SearchDone == engPc = "done" /\ engOp = "search_in_documents"

Newlines(t) == {i \in 1..Len(t) : t[i] = NL}

\* the paragraphs of a text whose newlines all stand in pairs: the pieces between
\* one pair and the next
ParagraphsOf(t) ==
    LET n == (Cardinality(Newlines(t)) \div 2) + 1
    IN  [p \in 1..n |->
            Slice(t, IF p = 1 THEN 1 ELSE Nth(Newlines(t), 2 * (p - 1)) + 1,
                     IF p = n THEN Len(t) ELSE Nth(Newlines(t), (2 * p) - 1) - 1)]

\* q[a..b] is a whitespace-split token of q
IsToken(q, a, b) ==
    /\ \A k \in a..b : ~IsSpace(q[k])
    /\ a = 1 \/ IsSpace(q[a - 1])
    /\ b = Len(q) \/ IsSpace(q[b + 1])

\* the paragraph contains, letter case aside, some token of the query
ContainsToken(paragraph, q) ==
    \E a \in 1..Len(q) : \E b \in a..Len(q) :
        /\ IsToken(q, a, b)
        /\ \E i \in 0..(Len(paragraph) - (b - a + 1)) :
               \A k \in 0..(b - a) : LowerChar(paragraph[i + k + 1]) = LowerChar(q[a + k])

\* the numbers of the paragraphs that contain a token of the query
RelevantIn(paragraphs, q) ==
    {n \in 1..Len(paragraphs) : ContainsToken(paragraphs[n], q)}

RelevantNumbers == RelevantIn(ParagraphsOf(engDoc), engQuery)

\* C15: a paragraph is relevant exactly when it contains, letter case aside,
\* some whitespace-split token of the query; without a relevant paragraph
\* search_in_documents returns its fixed message and calls the endpoint not at
\* all; otherwise it calls it once, with the first at most 5 relevant
\* paragraphs, labelled by their number, in their order in the document.
C15_SearchContext ==
    SearchDone =>
        LET paragraphs == ParagraphsOf(engDoc)
            relevant == RelevantIn(paragraphs, engQuery)
        IN  IF relevant = {}
            THEN /\ engSent = <<>>
                 /\ engResult.text = NoRelevantHead \o engQuery \o NoRelevantTail
            ELSE /\ Len(engSent) = 1
                 /\ engSent[1].query = engQuery
                 /\ engSent[1].document =
                        Join([k \in 1..Min({5, Cardinality(relevant)}) |->
                                 SectionHead \o Str(Nth(relevant, k)) \o SectionSep
                                 \o paragraphs[Nth(relevant, k)]],
                             <<NL, NL>>)

\* six paragraphs are relevant and one prompt went out
C15_Witness ==
    /\ SearchDone
    /\ Cardinality(RelevantNumbers) = 6
    /\ Len(engSent) = 1

\* the values a dict holds under a key: one or none
ValuesAt(d, key) == {d[i].value : i \in {j \in 1..Len(d) : d[j].key = key}}

\* process_file on every file of a batch
ExtractedOf(files) ==
    [i \in 1..Len(files) |-> ProcessFile(files[i].upload, files[i].lib)]

\* what a click of Process Documents made of the registry
BatchOutcome ==
    \E files \in {uploaded_files'} : \E extracted \in {ExtractedOf(files)} :
        /\ Len(attempts') = Len(files)
        /\ \A i \in 1..Len(files) :
               /\ attempts'[i].name = files[i].name
               /\ attempts'[i].status = "ok" <=> extracted[i].status = "ok"
        /\ \A name \in {files[i].name : i \in 1..Len(files)}
                       \cup {documents[i].key : i \in 1..Len(documents)}
                       \cup {documents'[i].key : i \in 1..Len(documents')} :
               \E ok \in {{i \in 1..Len(files) :
                              files[i].name = name /\ extracted[i].status = "ok"}} :
                   IF ok = {}
                   THEN ValuesAt(documents', name) = ValuesAt(documents, name)
                   ELSE \E last \in {Max(ok)} :
                            ValuesAt(documents', name) =
                                {[content |-> extracted[last].text,
                                  type |-> files[last].upload.type,
                                  size |-> files[last].size,
                                  processed_at |-> clock']}
        /\ \A i, j \in 1..Len(documents') : documents'[i].key = documents'[j].key => i = j

\* C16: a click of Process Documents attempts every uploaded file once, in
\* upload order, also the files after one that failed; afterwards the registry
\* holds, under the name of every file that succeeded, a new entry made from
\* the last such file, and under every other name what it held before.
C16_BatchRegistry == [][clock' = clock + 1 => BatchOutcome]_vars

\* in a second batch a.txt failed and b.pdf after it succeeded: the registry
\* keeps the a.txt of the first batch and has the b.pdf of the second
C16_Witness ==
    /\ clock = 2
    /\ Len(attempts) = 2
    /\ attempts[1].name = "a.txt" /\ attempts[1].status # "ok"
    /\ attempts[2].name = "b.pdf" /\ attempts[2].status = "ok"
    /\ \E e \in ValuesAt(documents, "a.txt") : e.processed_at = 1
    /\ \E e \in ValuesAt(documents, "b.pdf") : e.processed_at = 2

DocumentOperations ==
    {"chat_with_documents", "summarize_document", "extract_key_information",
     "answer_question", "analyze_sentiment", "search_in_documents"}

\* the paragraphs of the document that the prompt of a search embeds
SearchedParagraphs ==
    LET paragraphs == SplitBlank(engDoc)
        relevant == RelevantParagraphs(paragraphs, SplitWs(Lower(engQuery)))
    IN  [k \in 1..Min({5, Cardinality(relevant)}) |-> paragraphs[Nth(relevant, k)]]

\* the characters of document text in a prompt: the marker of a truncation and
\* the labels of the sections of a search are not document text
DocumentCharacters(prompt) ==
    IF prompt.template = "search" THEN Len(Join(SearchedParagraphs, <<>>))
    ELSE IF prompt.template = "document_chat" /\ IsSuffix(TruncationMarker, prompt.document)
    THEN Len(prompt.document) - Len(TruncationMarker)
    ELSE Len(prompt.document)

\* C17: no prompt of document chat, summarize, extract key information, answer
\* question, sentiment or document search embeds more than 15,000 characters
\* of document text, whatever the length of the document or of its paragraphs.
C17_BudgetIsCeiling ==
    (engPc = "done" /\ engOp \in DocumentOperations) =>
        \A n \in 1..Len(engSent) : DocumentCharacters(engSent[n]) <= 15000

\* the orders in which n things can be listed
Orders(n) == {f \in [1..n -> 1..n] : \A i, j \in 1..n : f[i] = f[j] => i = j}

\* C18: after any sequence of Process Documents clicks processed_content is
\* the contents of all documents of the registry joined by blank lines (in
\* whatever order), and so is non-empty whenever the registry holds a
\* document with non-empty content.
C18_ContentCoversRegistry ==
    /\ \E order \in Orders(Len(documents)) :
           processed_content =
               Join([i \in 1..Len(documents) |-> documents[order[i]].value.content],
                    <<NL, NL>>)
    /\ (\E i \in 1..Len(documents) : documents[i].value.content # <<>>)
           => processed_content # <<>>

----------------------------------------------------------------------------
(* C19: the conversation history *)

NoConsecutiveUsers(history) ==
    \A i \in 1..(Len(history) - 1) :
        ~(history[i].role = "user" /\ history[i + 1].role = "user")

NotEndingWithUser(history) ==
    history = <<>> \/ history[Len(history)].role # "user"

ErrorHeads == {VarshaError, GeneralChatError, DocumentChatError}

\* the generated reply, which the notice may follow, or a text that reports
\* the failure of the generation
ReplyOrErrorText(content, outcome) ==
    IF outcome.kind = "text" THEN IsPrefix(outcome.text, content)
    ELSE /\ \E head \in ErrorHeads : IsPrefix(head, content)
         /\ Contains(content, outcome.text)

\* the interaction appended a user message
UserAppended ==
    /\ Len(messages') > Len(messages)
    /\ messages'[Len(messages) + 1].role = "user"

\* the user message appended is the prompt, and the message after it is the
\* assistant's, with the reply or the error text
AnsweredAtOnce ==
    LET k == Len(messages) + 1
    IN  /\ messages'[k].content = engQuery'
        /\ Len(messages') > k
        /\ messages'[k + 1].role = "assistant"
        /\ ReplyOrErrorText(messages'[k + 1].content, engOutcome')

\* C19: after any sequence of chat inputs, suggestion clicks, quick actions
\* and Clear the history holds no two consecutive user messages and does not
\* end with a user message; an interaction that appends a user message
\* appends right after it an assistant message with the generated reply or,
\* when generation fails, an error text.
C19_UserMessagesAnswered ==
    /\ [](NoConsecutiveUsers(messages) /\ NotEndingWithUser(messages))
    /\ [][UserAppended => AnsweredAtOnce]_vars

\* a chat whose generation failed, after an earlier exchange: the history's
\* last two messages are the user's prompt and the error text
C19_Witness ==
    /\ engPc = "done" /\ engOp = "intelligent_chat"
    /\ engOutcome.kind = "raises"
    /\ Len(messages) = 4
    /\ messages[3] = Message("user", engQuery)
    /\ messages[4] = Message("assistant", engResult.text)
    /\ IsPrefix(VarshaError, messages[4].content)

====
